---- MODULE Spec2Model ----
(***************************************************************************)
(* Voice interaction subsystem of the housing-authority assistant UI.      *)
(*                                                                         *)
(* Two controllers are modelled, each with the page element that drives    *)
(* it:                                                                     *)
(*   - the useVoice hook (ui/lib/hooks/useVoice.ts) driven by the          *)
(*     VoiceMicrophone button (ui/components/voice/VoiceMicrophone.tsx);   *)
(*   - the HybridVoiceAgent component                                      *)
(*     (ui/components/voice/HybridVoiceAgent.tsx).                         *)
(*                                                                         *)
(* The browser is single threaded: every action below is one run-to-       *)
(* completion piece of JavaScript (an event handler, or the continuation   *)
(* of an async function after one of its awaits).  React commits the       *)
(* state set by a handler before the next event is dispatched, so event    *)
(* handlers read the committed state; values captured by a closure that    *)
(* outlives a render are modelled as captured values.                      *)
(***************************************************************************)
EXTENDS Integers, Sequences, FiniteSets, TLC

\* ---------------------------------------------------------------- bounds
\* Number of MediaStreams getUserMedia hands out in one run.
MaxStreams == 2
\* Number of invocations of one async function that may be pending at once.
MaxCalls == 2
\* Number of handleSendMessage calls (requests to /chat) in one run.
MaxSends == 2
\* Number of recordings VoiceMicrophone hands to Chat in one run.
MaxRecordings == 1
\* Number of playAudio invocations in one run.
MaxPlays == 2
\* Number of Audio elements a VoicePlayback creates in one run.
MaxElements == 3
\* Number of different payloads a VoicePlayback is given in one run.
MaxPayloads == 2
\* Largest length of the frequency-bin array handed to VoiceWaveform
\* (an analyser with fftSize 256 gives 128 bins).
MaxBins == 128
\* Number of animation frame requests of VoiceWaveform told apart at one time.
MaxFrames == 3
\* Number of recordings the backend holds at the start.
MaxStored == 2

StreamIds == 1..MaxStreams
\* A ref whose .current is null.
NoRef == 0
\* error === null
NoError == "null"

VARIABLES
    \* ---- useVoice hook state (useState / useRef)
    voiceState,        \* 'idle' | 'recording' | 'processing' | 'playing' | 'error'
    error,             \* error string or NoError
    voiceEnabled,
    isClient,
    settings,          \* [mode, saveRecordings]
    mediaRecorderRef,  \* NoRef or the recorder (named by the stream it records)
    streamRef,         \* NoRef or a stream
    \* ---- browser
    streams,           \* stream -> "none" | "live" | "stopped" (its tracks)
    recorders,         \* recorder -> "none" | "recording" | "stopped"
    \* ---- useVoice: async functions in flight
    gumPending,        \* startRecording invocations awaiting getUserMedia
    importPending,     \* streams whose startRecording awaits import('recordrtc')
    stopPending,       \* RecordRTC stop callbacks not yet run
    savePending,       \* stop callbacks awaiting saveRecording
    stopResult,        \* the latest stopRecording promise: "none" (never called),
                       \* "pending", or what it resolved to: "null" | "blob"
    \* ---- pointer on the VoiceMicrophone button
    mouse,             \* "up" | "down" (pressed) | "released" (click not yet delivered)
    \* ---- useVoice: the audio level monitor
    audioLevel,        \* "zero" or "sampled" (set from the analyser)
    animationFrameRef, \* NoRef or the loop (named by its stream) that last requested a frame
    frames,            \* loops with an animation frame callback scheduled
    gumVoiceStates,    \* voiceState captured -> startRecording invocations awaiting getUserMedia
    monitorVoiceState, \* stream -> the voiceState its invocation's monitorAudioLevel
                       \* captured ("idle" again once no callback holds the closure)
    \* ---- HybridVoiceAgent state (useState / useRef)
    state,             \* [isRecording, isProcessing, isPlaying, currentAgent, error,
                       \*  conversationId]
    hasPermissions,
    hybridRecorderRef, \* its mediaRecorderRef: NoRef or the recorder
    audioChunksRef,    \* sequence of the chunks pushed (each named by its recorder)
    audio,             \* the Audio element: [src, status]
    \* ---- HybridVoiceAgent: async functions in flight
    mountPermission,   \* requestMicrophonePermission of the mount effect
    permissionWaiters, \* startRecording invocations awaiting requestMicrophonePermission
    permissionStreams, \* streams opened by requestMicrophonePermission (never stopped)
    hybridGumPending,  \* startRecording invocations awaiting getUserMedia
    turns,             \* recorder -> the processVoiceMessage run its onstop started
    \* ---- HybridVoiceAgent: state.conversationId as closures captured it
    startRecordingClosure, \* in the processVoiceMessage the current startRecording calls
    waiterClosures,    \* captured id -> invocations awaiting requestMicrophonePermission
    gumClosures,       \* captured id -> invocations awaiting getUserMedia
    onstopClosure      \* recorder -> the id its onstop handler's closure holds

hookVars == <<voiceState, error, voiceEnabled, isClient, settings, mediaRecorderRef, streamRef>>
browserVars == <<streams, recorders>>
asyncVars == <<gumPending, importPending, stopPending, savePending, stopResult>>
monitorVars == <<audioLevel, animationFrameRef, frames, gumVoiceStates, monitorVoiceState>>
voiceVars == <<hookVars, asyncVars, mouse, monitorVars>>
closureVars == <<startRecordingClosure, waiterClosures, gumClosures, onstopClosure>>
hybridVars == <<state, hasPermissions, hybridRecorderRef, audioChunksRef, audio,
                mountPermission, permissionWaiters, permissionStreams, hybridGumPending,
                turns, closureVars>>

VARIABLES
    \* ---- Home state (useState)
    messages,          \* sequence of [role, audioData (whether the message has it)]
    isLoading,
    conversationId,    \* "null" or the id the backend gave
    currentAgent,
    \* ---- Chat props
    onVoiceMessage,    \* whether the host passes onVoiceMessage to Chat
    \* ---- Home / Chat: async functions in flight
    bootPending,       \* the callChatAPI of the mount effect
    uploads,           \* recording -> its uploadAudio call
    chats,             \* send -> its callChatAPI call
    \* ---- useVoice: audioElementRef and the playAudio invocations
    audioElement,      \* [load, status, volume]; load 0: no element yet, otherwise
                       \* the playAudio invocation that last set audio.src
    plays              \* playAudio invocations awaiting audio.play()

chatVars == <<messages, isLoading, conversationId, currentAgent, onVoiceMessage,
              bootPending, uploads, chats, audioElement, plays>>
VARIABLES
    \* ---- VoicePlayback props
    audioData,         \* NoRef (null) or a payload
    autoPlay,
    \* ---- VoicePlayback state (useState / useRef)
    internalPlaying,
    volume,
    audioRef,          \* NoRef or an Audio element
    \* ---- browser
    audioElements      \* Audio element -> [src, status, volume]

playbackVars == <<audioData, autoPlay, internalPlaying, volume, audioRef, audioElements>>
VARIABLES
    \* ---- VoiceWaveform props
    mode,              \* 'bars' | 'circle' | 'line' | 'orb'
    size,              \* 'small' | 'medium' | 'large'
    frequencyData,     \* NoRef (null) or the length of the array
    isActive,
    mounted,           \* the component is mounted
    \* ---- what the last drawWaveform call did
    dataIndices,       \* i -> the dataIndex computed for bar / point i
    lastDraw,          \* who called it: "static" (the inactive branch of the effect),
                       \* "effect" (animate, called by the effect) or "frame"
                       \* (animate, called as animation frame callback)
    \* ---- VoiceWaveform: the animation loop
    waveformFrameRef,  \* its animationFrameRef: NoRef or a frame request
    waveformFrames     \* the frame requests whose callback is scheduled

animationVars == <<isActive, mounted, lastDraw, waveformFrameRef, waveformFrames>>
waveformVars == <<mode, size, frequencyData, dataIndices, animationVars>>

VARIABLES
    \* ---- browser: object URLs
    objectUrls         \* playAudio invocation -> "none" | "live" | "revoked": the
                       \* URL it made with URL.createObjectURL

urlVars == <<objectUrls>>
VARIABLES
    \* ---- useElevenLabsVoice
    options,           \* [agentId (whether given), autoLoadSignedUrl]
    elevenLabs,        \* [mounted, config, signedUrl, isLoading, error]
    configPending,     \* loadConfig invocations awaiting getElevenLabsConfig
    signedUrlPending   \* loadSignedUrl invocations awaiting getElevenLabsSignedUrl

elevenLabsVars == <<options, elevenLabs, configPending, signedUrlPending>>
VARIABLES
    \* ---- RecordingsManager props and state (useState)
    isOpen,
    recordings,        \* the recording ids of the list
    selectedRecording, \* NoRef (null) or a recording id
    recordingsError,   \* its `error`
    \* ---- RecordingsManager: async functions in flight
    listPending,       \* loadRecordings invocations awaiting listRecordings
    audioLoads,        \* recordings whose loadRecordingAudio awaits getRecording
    deletes,           \* handleDeleteRecording invocations awaiting deleteRecording:
                       \* [recordingId, selectedRecording (of the render that made it)]
    \* ---- backend
    stored             \* the recording ids the backend holds

managerVars == <<isOpen, recordings, selectedRecording, recordingsError, listPending,
                 audioLoads, deletes, stored>>
\* The state of the parts that stand apart from the controllers and the page.
restVars == <<urlVars, elevenLabsVars, managerVars>>
pageVars == <<chatVars, playbackVars, waveformVars, restVars>>

vars == <<voiceVars, browserVars, hybridVars, pageVars>>

\* ------------------------------------------------------------ useVoice

\* settings.volume takes one of these values.
Volumes == {80, 30}

InitialSettings == [mode |-> "push-to-talk", volume |-> 80, autoPlayResponses |-> TRUE,
                    saveRecordings |-> TRUE]

isRecording == voiceState = "recording"

VoiceStates == {"idle", "recording", "processing", "playing", "error"}

\* The stream the next successful getUserMedia call returns.
FreshStreams == {s \in StreamIds : streams[s] = "none"}
NextStream == CHOOSE s \in FreshStreams : \A t \in FreshStreams : s <= t

NoTurn == [pc |-> "none", audioFields |-> 0, transcript |-> "none", message |-> "none",
           conversation_id |-> "null", audio_base64 |-> FALSE]

\* The conversation ids the backend hands out, one for each turn that may
\* ask for a new conversation.
ConversationIdNames == <<"c1", "c2", "c3", "c4">>
FreshConversationId(r) == ConversationIdNames[r]
ConversationIds == {"null"} \cup {FreshConversationId(r) : r \in StreamIds}

\* A processVoiceMessage run that has returned (its locals are gone).
TurnDone == [NoTurn EXCEPT !.pc = "done"]

SendIds == 1..MaxSends
RecordingIds == 1..MaxRecordings
PlayIds == 1..MaxPlays
\* A callChatAPI call of handleSendMessage that was not made yet, and one that
\* has settled.
NoCall == [pc |-> "none", message |-> "none", conversationId |-> "null"]
CallDone == [NoCall EXCEPT !.pc = "done"]
\* The uploadAudio call of a recording that was not delivered yet.  Once the
\* call has settled, transcript is the transcript that came back ("none"
\* when the call gave no body).
NoUpload == [pc |-> "none", conversationId |-> "null", transcript |-> "none"]
ElementIds == 1..MaxElements
Payloads == 1..MaxPayloads
\* An Audio element that was not created yet.
NoElement == [src |-> NoRef, status |-> "none", volume |-> 100]
\* audioElementRef.current === null
NoAudioElement == [load |-> 0, status |-> "none", volume |-> 100]

\* config before getElevenLabsConfig answered (null): every field read of
\* it is undefined.
NoConfig ==
    [loaded |-> FALSE, has_api_key |-> FALSE, default_agent_id |-> FALSE,
     public_agent |-> FALSE]

StoredIds == 1..MaxStored

Init ==
    /\ state = [isRecording |-> FALSE, isProcessing |-> FALSE, isPlaying |-> FALSE,
                currentAgent |-> "Triage Agent", error |-> NoError,
                conversationId |-> "null"]
    /\ hasPermissions = FALSE
    /\ hybridRecorderRef = NoRef
    /\ audioChunksRef = <<>>
    /\ audio = [src |-> NoRef, status |-> "idle"]
    /\ mountPermission = "pending"
    /\ permissionWaiters = 0
    /\ permissionStreams = 0
    /\ hybridGumPending = 0
    /\ turns = [s \in StreamIds |-> NoTurn]
    /\ startRecordingClosure = "null"
    /\ waiterClosures = [v \in ConversationIds |-> 0]
    /\ gumClosures = [v \in ConversationIds |-> 0]
    /\ onstopClosure = [s \in StreamIds |-> "null"]
    /\ voiceState = "idle"
    /\ error = NoError
    /\ voiceEnabled = FALSE
    /\ isClient = FALSE
    /\ settings = InitialSettings
    /\ mediaRecorderRef = NoRef
    /\ streamRef = NoRef
    /\ streams = [s \in StreamIds |-> "none"]
    /\ recorders = [s \in StreamIds |-> "none"]
    /\ gumPending = 0
    /\ importPending = {}
    /\ stopPending = 0
    /\ savePending = 0
    /\ stopResult = "none"
    /\ mouse = "up"
    /\ audioLevel = "zero"
    /\ animationFrameRef = NoRef
    /\ frames = {}
    /\ gumVoiceStates = [v \in VoiceStates |-> 0]
    /\ monitorVoiceState = [s \in StreamIds |-> "idle"]
    /\ messages = <<>>
    /\ isLoading = FALSE
    /\ conversationId = "null"
    /\ currentAgent = ""
    /\ onVoiceMessage \in BOOLEAN
    /\ bootPending = TRUE
    /\ uploads = [i \in RecordingIds |-> NoUpload]
    /\ chats = [c \in SendIds |-> NoCall]
    /\ audioElement = NoAudioElement
    /\ plays = {}
    /\ audioData = NoRef
    /\ autoPlay = FALSE
    /\ internalPlaying = FALSE
    /\ volume = 80
    /\ audioRef = NoRef
    /\ audioElements = [e \in ElementIds |-> NoElement]
    /\ mode = "orb"
    /\ size = "medium"
    /\ frequencyData = NoRef
    /\ dataIndices = <<>>
    /\ isActive = FALSE
    /\ mounted = TRUE
    /\ lastDraw = "static"
    /\ waveformFrameRef = NoRef
    /\ waveformFrames = {}
    /\ objectUrls = [k \in PlayIds |-> "none"]
    /\ options = [agentId |-> FALSE, autoLoadSignedUrl |-> FALSE]
    /\ elevenLabs = [mounted |-> FALSE, config |-> NoConfig, signedUrl |-> "null",
                     isLoading |-> FALSE, error |-> NoError]
    /\ configPending = 0
    /\ signedUrlPending = 0
    /\ isOpen = FALSE
    /\ recordings = {}
    /\ selectedRecording = NoRef
    /\ recordingsError = NoError
    /\ listPending = 0
    /\ audioLoads = {}
    /\ deletes = {}
    /\ stored = StoredIds

\* useEffect(() => { setIsClient(true) }, [])
MountEffect ==
    /\ UNCHANGED <<hybridVars, pageVars, monitorVars>>
    /\ ~isClient
    /\ isClient' = TRUE
    /\ UNCHANGED <<voiceState, error, voiceEnabled, settings, mediaRecorderRef, streamRef,
                   browserVars, asyncVars, mouse>>

\* startRecording up to its first suspension (the awaits of
\* initializeAudioContext and getUserMedia).  Assigns error, voiceState,
\* gumPending.
startRecording ==
    IF ~isClient
    THEN /\ error' = "Recording not supported in this environment"
         /\ UNCHANGED <<voiceState, gumPending, gumVoiceStates>>
    ELSE /\ gumPending < MaxCalls
         /\ error' = NoError
         /\ voiceState' = "recording"
         /\ gumPending' = gumPending + 1
         /\ gumVoiceStates' = [gumVoiceStates EXCEPT ![voiceState] = @ + 1]

\* getUserMedia resolves: streamRef.current = stream, then await import('recordrtc').
StartStreamAcquired ==
    /\ UNCHANGED <<hybridVars, pageVars, audioLevel, animationFrameRef, frames>>
    /\ gumPending > 0
    /\ FreshStreams # {}
    /\ gumPending' = gumPending - 1
    /\ streams' = [streams EXCEPT ![NextStream] = "live"]
    /\ streamRef' = NextStream
    /\ importPending' = importPending \cup {NextStream}
    /\ UNCHANGED <<voiceState, error, voiceEnabled, isClient, settings, mediaRecorderRef,
                   recorders, stopPending, savePending, stopResult, mouse>>
    /\ \E v \in VoiceStates :
          /\ gumVoiceStates[v] > 0
          /\ gumVoiceStates' = [gumVoiceStates EXCEPT ![v] = @ - 1]
          /\ monitorVoiceState' = [monitorVoiceState EXCEPT ![NextStream] = v]

\* getUserMedia rejects (permission denied, no device): the catch block.
StartStreamDenied ==
    /\ UNCHANGED <<hybridVars, pageVars, audioLevel, animationFrameRef, frames,
                   monitorVoiceState>>
    /\ \E v \in VoiceStates :
          /\ gumVoiceStates[v] > 0
          /\ gumVoiceStates' = [gumVoiceStates EXCEPT ![v] = @ - 1]
    /\ gumPending > 0
    /\ gumPending' = gumPending - 1
    /\ error' = "Microphone access denied or not available"
    /\ voiceState' = "error"
    /\ UNCHANGED <<voiceEnabled, isClient, settings, mediaRecorderRef, streamRef,
                   browserVars, importPending, stopPending, savePending, stopResult, mouse>>

\* updateLevel of the loop that the startRecording invocation of stream s
\* started: `voiceState` is the value monitorAudioLevel captured.  While it
\* is 'recording' the analyser is sampled into audioLevel and the next frame
\* is requested; otherwise nothing happens and the loop is over.  Assigns
\* audioLevel, animationFrameRef, frames.
updateLevel(s) ==
    IF monitorVoiceState[s] = "recording"
    THEN /\ audioLevel' = "sampled"
         /\ animationFrameRef' = s
         /\ frames' = frames \cup {s}
    ELSE /\ frames' = frames \ {s}
         /\ UNCHANGED <<audioLevel, animationFrameRef>>

\* monitorAudioLevel (the analyser exists): the first updateLevel call.
monitorAudioLevel(s) == updateLevel(s)

\* import resolves: new RecordRTC(stream), startRecording(), monitorAudioLevel().
StartRecorderStarted(s) ==
    /\ UNCHANGED <<hybridVars, pageVars, gumVoiceStates>>
    /\ monitorAudioLevel(s)
    /\ monitorVoiceState' = IF s \in frames' THEN monitorVoiceState
                            ELSE [monitorVoiceState EXCEPT ![s] = "idle"]
    /\ s \in importPending
    /\ importPending' = importPending \ {s}
    /\ mediaRecorderRef' = s
    /\ recorders' = [recorders EXCEPT ![s] = "recording"]
    /\ UNCHANGED <<voiceState, error, voiceEnabled, isClient, settings, streamRef,
                   streams, gumPending, stopPending, savePending, stopResult, mouse>>

\* import rejects, or the RecordRTC constructor / startRecording throws: the
\* catch block.  The stream acquired above is not touched.
StartRecorderFailed(s) ==
    /\ UNCHANGED <<hybridVars, pageVars, audioLevel, animationFrameRef, frames, gumVoiceStates>>
    /\ monitorVoiceState' = [monitorVoiceState EXCEPT ![s] = "idle"]
    /\ s \in importPending
    /\ importPending' = importPending \ {s}
    /\ error' = "Microphone access denied or not available"
    /\ voiceState' = "error"
    /\ UNCHANGED <<voiceEnabled, isClient, settings, mediaRecorderRef, streamRef,
                   browserVars, gumPending, stopPending, savePending, stopResult, mouse>>

\* stopRecording: the body of the promise executor.  Assigns voiceState,
\* recorders, stopPending, stopResult.  RecordRTC.stopRecording(callback)
\* stops the recorder and runs the callback later.
stopRecording ==
    IF mediaRecorderRef = NoRef
    THEN /\ stopResult' = "null"
         /\ UNCHANGED <<voiceState, recorders, stopPending>>
    ELSE /\ stopPending < MaxCalls
         /\ voiceState' = "processing"
         /\ recorders' = [recorders EXCEPT ![mediaRecorderRef] = "stopped"]
         /\ stopPending' = stopPending + 1
         /\ stopResult' = "pending"

\* mediaRecorderRef.current?.getBlob(): the recorder has a blob once stopped.
getBlob == mediaRecorderRef # NoRef /\ recorders[mediaRecorderRef] = "stopped"

\* The callback handed to RecordRTC.stopRecording.  It reads the refs when it
\* runs; `settings` is the value captured when stopRecording was created
\* (useCallback with no dependencies), i.e. the initial settings.
StopCallback ==
    /\ UNCHANGED <<hybridVars, pageVars, gumVoiceStates, monitorVoiceState>>
    /\ frames' = IF animationFrameRef # NoRef THEN frames \ {animationFrameRef} ELSE frames
    /\ animationFrameRef' = NoRef
    /\ audioLevel' = "zero"
    /\ stopPending > 0
    /\ stopPending' = stopPending - 1
    /\ streams' = IF streamRef # NoRef
                  THEN [streams EXCEPT ![streamRef] = "stopped"]
                  ELSE streams
    /\ streamRef' = NoRef
    /\ voiceState' = "idle"
    /\ IF getBlob
       THEN IF InitialSettings.saveRecordings
            THEN /\ savePending < MaxCalls
                 /\ savePending' = savePending + 1
                 /\ UNCHANGED stopResult
            ELSE stopResult' = "blob" /\ UNCHANGED savePending
       ELSE stopResult' = "null" /\ UNCHANGED savePending
    /\ UNCHANGED <<error, voiceEnabled, isClient, settings, mediaRecorderRef,
                   recorders, gumPending, importPending, mouse>>

\* await saveRecording(...) settles (saveRecording catches its own failures):
\* resolve({ audioBlob: blob }).
SaveSettled ==
    /\ UNCHANGED <<hybridVars, pageVars, monitorVars>>
    /\ savePending > 0
    /\ savePending' = savePending - 1
    /\ stopResult' = "blob"
    /\ UNCHANGED <<hookVars, browserVars, gumPending, importPending, stopPending, mouse>>

\* ------------------------------------------------------ VoiceMicrophone

\* toggleVoice: setVoiceEnabled(prev => !prev); when it was enabled also
\* stopRecording(), stopPlayback(), stopListening().  This instance of the
\* hook never plays audio (audioElementRef.current is null), so stopPlayback
\* does nothing.
toggleVoice ==
    /\ voiceEnabled' = ~voiceEnabled
    /\ IF voiceEnabled
       THEN stopRecording
       ELSE UNCHANGED <<voiceState, recorders, stopPending, stopResult>>

\* The voice toggle button.
ToggleVoiceClick ==
    /\ UNCHANGED <<hybridVars, pageVars, monitorVars>>
    /\ toggleVoice
    /\ UNCHANGED <<error, isClient, settings, mediaRecorderRef, streamRef, streams,
                   gumPending, importPending, savePending, mouse>>

\* The mode toggle button (disabled unless voiceEnabled).
ModeToggleClick ==
    /\ UNCHANGED <<hybridVars, pageVars, monitorVars>>
    /\ voiceEnabled
    /\ settings' = [settings EXCEPT !.mode =
                       IF @ = "push-to-talk" THEN "continuous" ELSE "push-to-talk"]
    /\ UNCHANGED <<voiceState, error, voiceEnabled, isClient, mediaRecorderRef, streamRef,
                   browserVars, asyncVars, mouse>>

\* handleMouseDown
HandleMouseDown ==
    /\ UNCHANGED <<hybridVars, pageVars, audioLevel, animationFrameRef, frames, monitorVoiceState>>
    /\ mouse = "up"
    /\ mouse' = "down"
    /\ IF settings.mode = "push-to-talk" /\ ~isRecording /\ voiceEnabled
       THEN /\ startRecording
            /\ UNCHANGED <<voiceEnabled, isClient, settings, mediaRecorderRef, streamRef,
                           browserVars, importPending, stopPending, savePending, stopResult>>
       ELSE UNCHANGED <<hookVars, browserVars, asyncVars, gumVoiceStates>>

\* handleMouseUp, as run by onMouseUp and by onMouseLeave.
handleMouseUp ==
    IF settings.mode = "push-to-talk" /\ isRecording
    THEN /\ stopRecording
         /\ UNCHANGED <<error, voiceEnabled, isClient, settings, mediaRecorderRef, streamRef,
                        streams, gumPending, importPending, savePending>>
    ELSE UNCHANGED <<hookVars, browserVars, asyncVars>>

\* onMouseUp: the button is released over the control; a click follows.
HandleMouseUp ==
    /\ UNCHANGED <<hybridVars, pageVars, monitorVars>>
    /\ mouse = "down"
    /\ mouse' = "released"
    /\ handleMouseUp

\* onMouseLeave: the pointer leaves the control, pressed or not; no click
\* follows.
HandleMouseLeave ==
    /\ UNCHANGED <<hybridVars, pageVars, monitorVars>>
    /\ mouse \in {"up", "down"}
    /\ mouse' = "up"
    /\ handleMouseUp

\* handleMicrophoneClick (the `disabled` prop is false)
HandleMicrophoneClick ==
    /\ UNCHANGED <<hybridVars, pageVars, audioLevel, animationFrameRef, frames, monitorVoiceState>>
    /\ mouse = "released"
    /\ mouse' = "up"
    /\ IF ~voiceEnabled
       THEN /\ toggleVoice
            /\ UNCHANGED <<error, isClient, settings, mediaRecorderRef, streamRef, streams,
                           gumPending, importPending, savePending,
                           gumVoiceStates>>
       ELSE IF isRecording
            THEN /\ stopRecording
                 /\ UNCHANGED <<error, voiceEnabled, isClient, settings, mediaRecorderRef,
                                streamRef, streams, gumPending, importPending, savePending,
                           gumVoiceStates>>
            ELSE /\ startRecording
                 /\ UNCHANGED <<voiceEnabled, isClient, settings, mediaRecorderRef, streamRef,
                                browserVars, importPending, stopPending, savePending,
                                stopResult>>

NextVoice ==
    \/ MountEffect
    \/ StartStreamAcquired
    \/ StartStreamDenied
    \/ \E s \in StreamIds : StartRecorderStarted(s)
    \/ \E s \in StreamIds : StartRecorderFailed(s)
    \/ StopCallback
    \/ SaveSettled
    \/ ToggleVoiceClick
    \/ ModeToggleClick
    \/ HandleMouseDown
    \/ HandleMouseUp
    \/ HandleMouseLeave
    \/ HandleMicrophoneClick

SpecVoice == Init /\ [][NextVoice]_vars

\* The same page with the interaction mode left at push-to-talk.
NextPushToTalk ==
    \/ MountEffect
    \/ StartStreamAcquired
    \/ StartStreamDenied
    \/ \E s \in StreamIds : StartRecorderStarted(s)
    \/ \E s \in StreamIds : StartRecorderFailed(s)
    \/ StopCallback
    \/ SaveSettled
    \/ ToggleVoiceClick
    \/ HandleMouseDown
    \/ HandleMouseUp
    \/ HandleMouseLeave
    \/ HandleMicrophoneClick

SpecPushToTalk == Init /\ [][NextPushToTalk]_vars

\* A consumer of the hook calls updateSettings({ saveRecordings: b }), at a
\* moment when no stopRecording call is in progress.
UpdateSaveRecordings(b) ==
    /\ UNCHANGED <<hybridVars, pageVars, monitorVars>>
    /\ stopPending = 0
    /\ savePending = 0
    /\ settings' = [settings EXCEPT !.saveRecordings = b]
    /\ UNCHANGED <<voiceState, error, voiceEnabled, isClient, mediaRecorderRef, streamRef,
                   browserVars, asyncVars, mouse>>

\* The VoiceMicrophone page with the saveRecordings setting being changed.
NextVoiceSettings ==
    \/ NextVoice
    \/ \E b \in BOOLEAN : UpdateSaveRecordings(b)

SpecVoiceSettings == Init /\ [][NextVoiceSettings]_vars

\* ------------------------------------------- useVoice: the level monitor
\* The hook as any consumer may drive it: startRecording and stopRecording
\* called at any time, and the animation frames of the level monitor.

\* A consumer calls startRecording().
StartRecordingCall ==
    /\ startRecording
    /\ UNCHANGED <<voiceEnabled, isClient, settings, mediaRecorderRef, streamRef, browserVars,
                   importPending, stopPending, savePending, stopResult, mouse, audioLevel,
                   animationFrameRef, frames, monitorVoiceState, hybridVars, pageVars>>

\* A consumer calls stopRecording().
StopRecordingCall ==
    /\ stopRecording
    /\ UNCHANGED <<error, voiceEnabled, isClient, settings, mediaRecorderRef, streamRef,
                   streams, gumPending, importPending, savePending, mouse, monitorVars,
                   hybridVars, pageVars>>

\* The animation frame a loop requested arrives: updateLevel runs again.
LevelTick(s) ==
    /\ s \in frames
    /\ updateLevel(s)
    /\ UNCHANGED <<hookVars, browserVars, asyncVars, mouse, gumVoiceStates, monitorVoiceState,
                   hybridVars, pageVars>>

NextMonitor ==
    \/ MountEffect
    \/ StartRecordingCall
    \/ StopRecordingCall
    \/ StartStreamAcquired
    \/ StartStreamDenied
    \/ \E s \in StreamIds : StartRecorderStarted(s)
    \/ \E s \in StreamIds : StartRecorderFailed(s)
    \/ StopCallback
    \/ SaveSettled
    \/ \E s \in StreamIds : LevelTick(s)

SpecMonitor == Init /\ [][NextMonitor]_vars

\* ------------------------------------------------------ HybridVoiceAgent

\* What /speech-to-text answers: "failed" (network error, non-2xx status or
\* undecodable body) or a body whose transcript is one of Transcripts.
Transcripts == {"", "I need to schedule an inspection", "What are my office hours"}
SttOutcomes == {"failed"} \cup Transcripts
\* current_agent of a /voice/agent-chat response.
Agents == {"Triage Agent", "Inspection Agent"}
\* What /voice/agent-chat answers: nothing usable (network error or
\* undecodable body: received is FALSE) or a response with a status (ok: it is
\* 2xx) and a body [success, audio_base64 present, current_agent].
NoAgentBody == [received |-> FALSE, ok |-> FALSE, success |-> FALSE, audio_base64 |-> FALSE,
                current_agent |-> "Triage Agent"]
AgentOutcomes ==
    {NoAgentBody} \cup
    [received : {TRUE}, ok : BOOLEAN, success : BOOLEAN, audio_base64 : BOOLEAN,
     current_agent : Agents]

\* None of isRecording, isProcessing, isPlaying.
HybridIdle == ~state.isRecording /\ ~state.isProcessing /\ ~state.isPlaying

\* Invocations of startRecording grouped by the conversation id their
\* closure holds: one more, one fewer.
BagAdd(b, v) == [b EXCEPT ![v] = @ + 1]
BagRemove(b, v) == [b EXCEPT ![v] = @ - 1]

\* startRecording is a useCallback on [hasPermissions,
\* requestMicrophonePermission]: it is created again, around the
\* processVoiceMessage (and so the state.conversationId) of the render that
\* follows, only in a step that changes hasPermissions.
RenderedClosure ==
    IF hasPermissions' # hasPermissions THEN state'.conversationId
    ELSE startRecordingClosure

\* requestMicrophonePermission called by the mount effect: getUserMedia
\* resolves.  The stream it returns is dropped with its tracks running.
MountPermissionGranted ==
    /\ mountPermission = "pending"
    /\ permissionStreams < MaxStreams
    /\ mountPermission' = "done"
    /\ permissionStreams' = permissionStreams + 1
    /\ hasPermissions' = TRUE
    /\ state' = [state EXCEPT !.error = NoError]
    /\ startRecordingClosure' = RenderedClosure
    /\ UNCHANGED <<waiterClosures, gumClosures, onstopClosure>>
    /\ UNCHANGED <<hybridRecorderRef, audioChunksRef, audio, permissionWaiters,
                   hybridGumPending, turns, browserVars, voiceVars, pageVars>>

\* requestMicrophonePermission called by the mount effect: getUserMedia rejects.
MountPermissionDenied ==
    /\ mountPermission = "pending"
    /\ mountPermission' = "done"
    /\ hasPermissions' = FALSE
    /\ state' = [state EXCEPT !.error = "Microphone access required for voice conversation"]
    /\ startRecordingClosure' = RenderedClosure
    /\ UNCHANGED <<waiterClosures, gumClosures, onstopClosure>>
    /\ UNCHANGED <<hybridRecorderRef, audioChunksRef, audio, permissionWaiters,
                   permissionStreams, hybridGumPending, turns, browserVars, voiceVars, pageVars>>

\* The Start button (shown while !state.isRecording, disabled while
\* isProcessing || isPlaying) runs startRecording: without hasPermissions it
\* awaits requestMicrophonePermission, otherwise it sets isRecording and
\* awaits getUserMedia.
StartRecordingClick ==
    /\ ~state.isRecording
    /\ ~(state.isProcessing \/ state.isPlaying)
    /\ IF ~hasPermissions
       THEN /\ permissionWaiters < MaxCalls
            /\ permissionWaiters' = permissionWaiters + 1
            /\ waiterClosures' = BagAdd(waiterClosures, startRecordingClosure)
            /\ UNCHANGED <<state, hybridGumPending, gumClosures>>
       ELSE /\ hybridGumPending < MaxCalls
            /\ state' = [state EXCEPT !.isRecording = TRUE, !.error = NoError]
            /\ hybridGumPending' = hybridGumPending + 1
            /\ gumClosures' = BagAdd(gumClosures, startRecordingClosure)
            /\ UNCHANGED <<permissionWaiters, waiterClosures>>
    /\ UNCHANGED <<hasPermissions, hybridRecorderRef, audioChunksRef, audio, mountPermission,
                   permissionStreams, turns, browserVars, voiceVars, pageVars, startRecordingClosure,
                   onstopClosure>>

\* requestMicrophonePermission awaited by startRecording resolves true;
\* startRecording goes on: sets isRecording and awaits getUserMedia.
WaiterPermissionGranted ==
    /\ permissionWaiters > 0
    /\ permissionStreams < MaxStreams
    /\ hybridGumPending < MaxCalls
    /\ permissionWaiters' = permissionWaiters - 1
    /\ permissionStreams' = permissionStreams + 1
    /\ hasPermissions' = TRUE
    /\ state' = [state EXCEPT !.isRecording = TRUE, !.error = NoError]
    /\ hybridGumPending' = hybridGumPending + 1
    /\ \E v \in ConversationIds :
          /\ waiterClosures[v] > 0
          /\ waiterClosures' = BagRemove(waiterClosures, v)
          /\ gumClosures' = BagAdd(gumClosures, v)
    /\ startRecordingClosure' = RenderedClosure
    /\ UNCHANGED <<hybridRecorderRef, audioChunksRef, audio, mountPermission, turns,
                   browserVars, voiceVars, pageVars, onstopClosure>>

\* requestMicrophonePermission awaited by startRecording resolves false;
\* startRecording returns.
WaiterPermissionDenied ==
    /\ permissionWaiters > 0
    /\ permissionWaiters' = permissionWaiters - 1
    /\ hasPermissions' = FALSE
    /\ state' = [state EXCEPT !.error = "Microphone access required for voice conversation"]
    /\ \E v \in ConversationIds :
          /\ waiterClosures[v] > 0
          /\ waiterClosures' = BagRemove(waiterClosures, v)
    /\ startRecordingClosure' = RenderedClosure
    /\ UNCHANGED <<hybridRecorderRef, audioChunksRef, audio, mountPermission,
                   permissionStreams, hybridGumPending, turns, browserVars, voiceVars, pageVars, gumClosures, onstopClosure>>

\* getUserMedia of startRecording resolves: new MediaRecorder(stream),
\* mediaRecorderRef.current = it, audioChunksRef.current = [], start().
HybridRecorderStarted ==
    /\ hybridGumPending > 0
    /\ FreshStreams # {}
    /\ hybridGumPending' = hybridGumPending - 1
    /\ streams' = [streams EXCEPT ![NextStream] = "live"]
    /\ recorders' = [recorders EXCEPT ![NextStream] = "recording"]
    /\ hybridRecorderRef' = NextStream
    /\ audioChunksRef' = <<>>
    /\ \E v \in ConversationIds :
          /\ gumClosures[v] > 0
          /\ gumClosures' = BagRemove(gumClosures, v)
          /\ onstopClosure' = [onstopClosure EXCEPT ![NextStream] = v]
    /\ UNCHANGED <<state, hasPermissions, audio, mountPermission, permissionWaiters,
                   permissionStreams, turns, voiceVars, pageVars, startRecordingClosure,
                   waiterClosures>>

\* getUserMedia of startRecording resolves, then the MediaRecorder
\* constructor throws (the refs are not yet assigned) or start() throws (they
\* are): the catch block.  The stream is not touched.
HybridRecorderFailed(atStart) ==
    /\ hybridGumPending > 0
    /\ FreshStreams # {}
    /\ hybridGumPending' = hybridGumPending - 1
    /\ streams' = [streams EXCEPT ![NextStream] = "live"]
    /\ IF atStart
       THEN /\ recorders' = [recorders EXCEPT ![NextStream] = "inactive"]
            /\ hybridRecorderRef' = NextStream
            /\ audioChunksRef' = <<>>
       ELSE UNCHANGED <<recorders, hybridRecorderRef, audioChunksRef>>
    /\ state' = [state EXCEPT !.error = "Failed to start recording", !.isRecording = FALSE]
    /\ \E v \in ConversationIds :
          /\ gumClosures[v] > 0
          /\ gumClosures' = BagRemove(gumClosures, v)
    /\ UNCHANGED <<hasPermissions, audio, mountPermission, permissionWaiters,
                   permissionStreams, turns, voiceVars, pageVars, startRecordingClosure,
                   waiterClosures, onstopClosure>>

\* getUserMedia of startRecording rejects: the catch block.
HybridStreamDenied ==
    /\ hybridGumPending > 0
    /\ hybridGumPending' = hybridGumPending - 1
    /\ state' = [state EXCEPT !.error = "Failed to start recording", !.isRecording = FALSE]
    /\ \E v \in ConversationIds :
          /\ gumClosures[v] > 0
          /\ gumClosures' = BagRemove(gumClosures, v)
    /\ UNCHANGED <<hasPermissions, hybridRecorderRef, audioChunksRef, audio, mountPermission,
                   permissionWaiters, permissionStreams, turns, browserVars, voiceVars, pageVars, startRecordingClosure,
                   waiterClosures, onstopClosure>>

\* The Stop button and the floating button (while state.isRecording) run
\* stopRecording.  MediaRecorder.stop() on a recorder that is not recording
\* has no effect on it.
StopRecordingClick ==
    /\ state.isRecording
    /\ IF hybridRecorderRef # NoRef
       THEN /\ state' = [state EXCEPT !.isRecording = FALSE, !.isProcessing = TRUE]
            /\ recorders' = IF recorders[hybridRecorderRef] = "recording"
                            THEN [recorders EXCEPT ![hybridRecorderRef] = "stopping"]
                            ELSE recorders
       ELSE UNCHANGED <<state, recorders>>
    /\ UNCHANGED <<hasPermissions, hybridRecorderRef, audioChunksRef, audio, mountPermission,
                   permissionWaiters, permissionStreams, hybridGumPending, turns, streams,
                   voiceVars, pageVars, closureVars>>

\* processVoiceMessage gives up on a transcription that failed or is empty.
TranscriptionUnusable(outcome) == outcome = "failed" \/ outcome = ""

\* The message processVoiceMessage sends to /voice/agent-chat.
AgentChatMessage(transcript) == transcript

\* The recorder's stop task: ondataavailable pushes the chunk when its size
\* is positive, then onstop builds the blob from audioChunksRef.current and
\* calls processVoiceMessage, which posts it to /speech-to-text as the one
\* form field `audio`.
RecorderStopped(r, hasData) ==
    /\ recorders[r] = "stopping"
    /\ recorders' = [recorders EXCEPT ![r] = "inactive"]
    /\ audioChunksRef' = IF hasData THEN Append(audioChunksRef, r) ELSE audioChunksRef
    /\ turns' = [turns EXCEPT ![r] = [NoTurn EXCEPT !.pc = "stt", !.audioFields = 1]]
    /\ UNCHANGED <<state, hasPermissions, hybridRecorderRef, audio, mountPermission,
                   permissionWaiters, permissionStreams, hybridGumPending, streams, voiceVars, pageVars, closureVars>>

\* The catch block of processVoiceMessage, after which onstop stops the
\* tracks of its stream.
processingFailed(r) ==
    /\ state' = [state EXCEPT !.error = "Failed to process voice message",
                              !.isProcessing = FALSE]
    /\ streams' = [streams EXCEPT ![r] = "stopped"]

\* /speech-to-text answers.
TranscriptionSettled(r, outcome) ==
    /\ turns[r].pc = "stt"
    /\ IF TranscriptionUnusable(outcome)
       THEN /\ processingFailed(r)
            /\ turns' = [turns EXCEPT ![r] = TurnDone]
       ELSE /\ turns' = [turns EXCEPT ![r].pc = "agent", ![r].transcript = outcome,
                                      ![r].message = AgentChatMessage(outcome),
                                      ![r].conversation_id = onstopClosure[r]]
            /\ UNCHANGED <<state, streams>>
    /\ UNCHANGED <<hasPermissions, hybridRecorderRef, audioChunksRef, audio, mountPermission,
                   permissionWaiters, permissionStreams, hybridGumPending, recorders,
                   voiceVars, pageVars, closureVars>>

\* conversation_id of a /voice/agent-chat response: the id of the request, or
\* a new one when the request carried none.
ResponseConversationId(r) ==
    IF turns[r].conversation_id = "null" THEN FreshConversationId(r)
    ELSE turns[r].conversation_id

\* The response makes processVoiceMessage call playAudioResponse.
ResponseHasAudio(outcome) == outcome.audio_base64

\* /voice/agent-chat answers.  On success the state takes the agent and the
\* conversation id and leaves Processing; with audio_base64 playAudioResponse
\* sets isPlaying, loads the Audio element and awaits play(); without it
\* processVoiceMessage returns and onstop stops the tracks.
AgentChatSettled(r, outcome) ==
    /\ turns[r].pc = "agent"
    /\ IF ~outcome.received \/ ~outcome.success
       THEN /\ processingFailed(r)
            /\ turns' = [turns EXCEPT ![r] = TurnDone]
            /\ UNCHANGED audio
       ELSE IF ResponseHasAudio(outcome)
            THEN /\ state' = [state EXCEPT !.currentAgent = outcome.current_agent,
                                           !.conversationId = ResponseConversationId(r),
                                           !.isProcessing = FALSE,
                                           !.isPlaying = TRUE]
                 /\ audio' = [src |-> r, status |-> "loading"]
                 /\ turns' = [turns EXCEPT ![r].pc = "play", ![r].audio_base64 = TRUE]
                 /\ UNCHANGED streams
            ELSE /\ state' = [state EXCEPT !.currentAgent = outcome.current_agent,
                                           !.conversationId = ResponseConversationId(r),
                                           !.isProcessing = FALSE]
                 /\ turns' = [turns EXCEPT ![r] = TurnDone]
                 /\ streams' = [streams EXCEPT ![r] = "stopped"]
                 /\ UNCHANGED audio
    /\ UNCHANGED <<hasPermissions, hybridRecorderRef, audioChunksRef, mountPermission,
                   permissionWaiters, permissionStreams, hybridGumPending, recorders,
                   voiceVars, pageVars, closureVars>>

\* audio.play() resolves: playAudioResponse and processVoiceMessage return,
\* onstop stops the tracks.
PlayStarted(r) ==
    /\ turns[r].pc = "play"
    /\ audio = [src |-> r, status |-> "loading"]
    /\ audio' = [audio EXCEPT !.status = "playing"]
    /\ turns' = [turns EXCEPT ![r] = TurnDone]
    /\ streams' = [streams EXCEPT ![r] = "stopped"]
    /\ UNCHANGED <<state, hasPermissions, hybridRecorderRef, audioChunksRef, mountPermission,
                   permissionWaiters, permissionStreams, hybridGumPending, recorders,
                   voiceVars, pageVars, closureVars>>

\* audio.play() rejects (autoplay policy, undecodable payload, or a newer
\* payload loaded into the element): the catch block of playAudioResponse,
\* then as above.
PlayRejected(r) ==
    /\ turns[r].pc = "play"
    /\ audio.status # "playing" \/ audio.src # r
    /\ audio' = IF audio.src = r THEN [audio EXCEPT !.status = "idle"] ELSE audio
    /\ state' = [state EXCEPT !.error = "Audio playback failed", !.isPlaying = FALSE]
    /\ turns' = [turns EXCEPT ![r] = TurnDone]
    /\ streams' = [streams EXCEPT ![r] = "stopped"]
    /\ UNCHANGED <<hasPermissions, hybridRecorderRef, audioChunksRef, mountPermission,
                   permissionWaiters, permissionStreams, hybridGumPending, recorders,
                   voiceVars, pageVars, closureVars>>

\* audio.onended
PlaybackEnded ==
    /\ audio.status = "playing"
    /\ audio' = [audio EXCEPT !.status = "idle"]
    /\ state' = [state EXCEPT !.isPlaying = FALSE]
    /\ UNCHANGED <<hasPermissions, hybridRecorderRef, audioChunksRef, mountPermission,
                   permissionWaiters, permissionStreams, hybridGumPending, turns,
                   browserVars, voiceVars, pageVars, closureVars>>

\* audio.onerror
PlaybackError ==
    /\ audio.status = "playing"
    /\ audio' = [audio EXCEPT !.status = "idle"]
    /\ state' = [state EXCEPT !.error = "Failed to play audio response",
                              !.isPlaying = FALSE]
    /\ UNCHANGED <<hasPermissions, hybridRecorderRef, audioChunksRef, mountPermission,
                   permissionWaiters, permissionStreams, hybridGumPending, turns,
                   browserVars, voiceVars, pageVars, closureVars>>

NextHybrid ==
    \/ MountPermissionGranted
    \/ MountPermissionDenied
    \/ StartRecordingClick
    \/ WaiterPermissionGranted
    \/ WaiterPermissionDenied
    \/ HybridRecorderStarted
    \/ \E atStart \in BOOLEAN : HybridRecorderFailed(atStart)
    \/ HybridStreamDenied
    \/ StopRecordingClick
    \/ \E r \in StreamIds, hasData \in BOOLEAN : RecorderStopped(r, hasData)
    \/ \E r \in StreamIds, outcome \in SttOutcomes : TranscriptionSettled(r, outcome)
    \/ \E r \in StreamIds, outcome \in AgentOutcomes : AgentChatSettled(r, outcome)
    \/ \E r \in StreamIds : PlayStarted(r)
    \/ \E r \in StreamIds : PlayRejected(r)
    \/ PlaybackEnded
    \/ PlaybackError

SpecHybrid == Init /\ [][NextHybrid]_vars

\* The browser and the network do their part: a recorder that was told to
\* stop delivers its stop event, every fetch and every play() settles, a
\* playback that started ends or fails, and getUserMedia answers.  Nothing is
\* assumed of the user.
HybridFairness ==
    /\ WF_vars(MountPermissionGranted \/ MountPermissionDenied)
    /\ WF_vars(WaiterPermissionGranted \/ WaiterPermissionDenied)
    /\ WF_vars(HybridRecorderStarted \/ HybridStreamDenied
               \/ \E atStart \in BOOLEAN : HybridRecorderFailed(atStart))
    /\ WF_vars(\E r \in StreamIds, hasData \in BOOLEAN : RecorderStopped(r, hasData))
    /\ WF_vars(\E r \in StreamIds, outcome \in SttOutcomes : TranscriptionSettled(r, outcome))
    /\ WF_vars(\E r \in StreamIds, outcome \in AgentOutcomes : AgentChatSettled(r, outcome))
    /\ WF_vars(\E r \in StreamIds : PlayStarted(r) \/ PlayRejected(r))
    /\ WF_vars(PlaybackEnded \/ PlaybackError)

SpecHybridLive == Init /\ [][NextHybrid]_vars /\ HybridFairness

\* ---------------------------------------------------------- Home and Chat
\* The page: Home renders Chat, Chat holds its own useVoice instance (for
\* settings, toggleVoice and playAudio) and renders VoiceMicrophone while
\* that instance has voice enabled.  In this part voiceState, error,
\* voiceEnabled, isClient and settings are those of Chat's instance.  The
\* mount effect of the hook (MountEffect) runs before the page takes any
\* event, so every handler below finds isClient true.

\* What the user can type into the message box (handleSend refuses blank text).
InputTexts == {"Where is my application"}

\* What fetch("/chat") gives: received is FALSE when fetch rejects; ok is the
\* status being 2xx; decodable is FALSE when res.json() rejects; the rest is
\* the body (hasMessage: `messages` is an array holding one message, which
\* has audio_base64 or not).  Fields that cannot be read are left at one value.
ChatResponses ==
    {res \in [received : BOOLEAN, ok : BOOLEAN, decodable : BOOLEAN, hasMessage : BOOLEAN,
              audio_base64 : BOOLEAN, current_agent : Agents] :
        /\ ~res.received => (~res.ok /\ ~res.decodable)
        /\ ~res.decodable =>
              (~res.hasMessage /\ ~res.audio_base64 /\ res.current_agent = "Triage Agent")
        /\ res.audio_base64 => res.hasMessage}

\* What fetch("/speech-to-text") gives to uploadAudio.
UploadResponses ==
    {res \in [received : BOOLEAN, ok : BOOLEAN, decodable : BOOLEAN,
              transcript : Transcripts] :
        /\ ~res.received => (~res.ok /\ ~res.decodable)
        /\ ~res.decodable => res.transcript = ""}

\* callChatAPI: null when fetch rejects or the status is not 2xx (the catch
\* block); otherwise `return res.json()`, whose rejection is outside the
\* try block and reaches the caller.
callChatAPI(res) ==
    IF ~res.received \/ ~res.ok THEN "null"
    ELSE IF ~res.decodable THEN "throws"
    ELSE "data"

\* uploadAudio: the same shape.
uploadAudio(res) ==
    IF ~res.received \/ ~res.ok THEN "null"
    ELSE IF ~res.decodable THEN "throws"
    ELSE "data"

\* A variant of the test below that looks at the response alone and not at
\* its transcript.
ForwardsAnyTranscript(res) == uploadAudio(res) = "data"

\* `speechResponse && speechResponse.transcript` in Home.handleVoiceUpload:
\* an empty string is falsy.
HomeForwardsTranscript(res) == uploadAudio(res) = "data" /\ res.transcript # ""

\* `response && response.transcript` in Chat.handleVoiceRecording (the path
\* taken when the host passes no onVoiceMessage).
ChatForwardsTranscript(res) == uploadAudio(res) = "data" /\ res.transcript # ""

\* The condition of Chat's auto-play effect.
AutoPlays(msgs, sett, enabled) ==
    /\ Len(msgs) > 0
    /\ msgs[Len(msgs)].role = "assistant"
    /\ msgs[Len(msgs)].audioData
    /\ sett.autoPlayResponses
    /\ enabled

\* playAudio as created by the render with the given settings: state
\* 'playing', error null, the one Audio element gets the payload as src and
\* settings.volume, then play() is awaited.  Assigns voiceState, error,
\* audioElement, plays.
playAudio(sett) ==
    /\ audioElement.load < MaxPlays
    /\ voiceState' = "playing"
    /\ error' = NoError
    /\ audioElement' = [load |-> audioElement.load + 1, status |-> "loading",
                        volume |-> sett.volume]
    /\ plays' = plays \cup {audioElement.load + 1}

\* Chat's auto-play effect, run after a render in which one of its
\* dependencies (messages, settings.autoPlayResponses, voiceHookEnabled,
\* playAudio) changed.
autoPlayEffect(msgs, sett, enabled) ==
    IF AutoPlays(msgs, sett, enabled)
    THEN playAudio(sett)
    ELSE UNCHANGED <<voiceState, error, audioElement, plays>>

\* stopPlayback.  Assigns voiceState, audioElement.
stopPlayback ==
    IF audioElement.load # 0
    THEN /\ audioElement' = [audioElement EXCEPT !.status =
                                IF @ \in {"loading", "playing"} THEN "paused" ELSE @]
         /\ voiceState' = "idle"
    ELSE UNCHANGED <<voiceState, audioElement>>

\* What the actions of this part leave alone: the capture side of the hook
\* and the other component.
captureVars == <<mediaRecorderRef, streamRef, browserVars, gumPending, importPending,
                 stopPending, savePending, mouse, monitorVars, hybridVars, playbackVars, waveformVars,
                 restVars>>

NextSendId == CHOOSE c \in SendIds : chats[c] = NoCall /\ \A d \in SendIds : d < c => chats[d] # NoCall
NextRecordingId ==
    CHOOSE i \in RecordingIds : uploads[i] = NoUpload /\ \A j \in RecordingIds : j < i => uploads[j] # NoUpload

\* Home.handleSendMessage up to its await: appends the user message, sets
\* isLoading, calls callChatAPI with the conversationId of the render that
\* created this closure.  Assigns messages, isLoading, chats.
handleSendMessage(content, capturedConversationId) ==
    /\ \E c \in SendIds : chats[c] = NoCall
    /\ messages' = Append(messages, [role |-> "user", audioData |-> FALSE])
    /\ isLoading' = TRUE
    /\ chats' = [chats EXCEPT ![NextSendId] =
                    [pc |-> "pending", message |-> content,
                     conversationId |-> capturedConversationId]]

\* The callChatAPI of Home's mount effect settles.
BootSettled(res) ==
    /\ isClient
    /\ bootPending
    /\ bootPending' = FALSE
    /\ IF callChatAPI(res) = "data"
       THEN /\ conversationId' = "c1"
            /\ currentAgent' = res.current_agent
            /\ messages' = IF res.hasMessage
                           THEN <<[role |-> "assistant", audioData |-> FALSE]>>
                           ELSE messages
       ELSE UNCHANGED <<conversationId, currentAgent, messages>>
    /\ UNCHANGED <<isLoading, onVoiceMessage, uploads, chats, audioElement, plays,
                   hookVars, stopResult, captureVars>>

\* Chat.handleSend: the send button or Enter.
HandleSend(text) ==
    /\ isClient
    /\ handleSendMessage(text, conversationId)
    /\ UNCHANGED <<conversationId, currentAgent, onVoiceMessage, bootPending, uploads,
                   audioElement, plays, hookVars, stopResult, captureVars>>

\* VoiceMicrophone (rendered while voice is enabled) hands a recording to
\* Chat.handleVoiceRecording: with onVoiceMessage it goes to
\* Home.handleVoiceUpload, without to Chat's own fallback; both call
\* uploadAudio.
HandleVoiceRecording ==
    /\ isClient
    /\ voiceEnabled
    /\ \E i \in RecordingIds : uploads[i] = NoUpload
    /\ uploads' = [uploads EXCEPT ![NextRecordingId] =
                      [NoUpload EXCEPT !.pc = "pending",
                                       !.conversationId = conversationId]]
    /\ UNCHANGED <<messages, isLoading, conversationId, currentAgent, onVoiceMessage,
                   bootPending, chats, audioElement, plays, hookVars, stopResult,
                   captureVars>>

\* uploadAudio settles: a usable transcript is sent on through
\* handleSendMessage, anything else is logged to the console.
UploadSettled(i, res) ==
    /\ uploads[i].pc = "pending"
    /\ uploads' = [uploads EXCEPT ![i] =
                      [NoUpload EXCEPT !.pc = "done",
                                       !.transcript = IF uploadAudio(res) = "data"
                                                      THEN res.transcript ELSE "none"]]
    /\ IF (IF onVoiceMessage THEN HomeForwardsTranscript(res)
                             ELSE ChatForwardsTranscript(res))
       THEN handleSendMessage(res.transcript, uploads[i].conversationId)
       ELSE UNCHANGED <<messages, isLoading, chats>>
    /\ UNCHANGED <<conversationId, currentAgent, onVoiceMessage, bootPending,
                   audioElement, plays, hookVars, stopResult, captureVars>>

\* callChatAPI of handleSendMessage settles.  null: the apology message is
\* appended.  A body: conversation id (when the closure had none), agent,
\* messages.  A rejection of res.json() leaves handleSendMessage where it is.
\* The render that follows runs the auto-play effect.
ChatSettled(c, res) ==
    /\ chats[c].pc = "pending"
    /\ chats' = [chats EXCEPT ![c] = CallDone]
    /\ IF callChatAPI(res) = "throws"
       THEN UNCHANGED <<messages, isLoading, conversationId, currentAgent, voiceState,
                        error, audioElement, plays>>
       ELSE /\ isLoading' = FALSE
            /\ IF callChatAPI(res) = "null"
               THEN /\ messages' = Append(messages,
                                          [role |-> "assistant", audioData |-> FALSE])
                    /\ UNCHANGED <<conversationId, currentAgent>>
               ELSE /\ conversationId' = IF chats[c].conversationId = "null"
                                         THEN "c1" ELSE conversationId
                    /\ currentAgent' = res.current_agent
                    /\ messages' = IF res.hasMessage
                                   THEN Append(messages, [role |-> "assistant",
                                                          audioData |-> res.audio_base64])
                                   ELSE messages
            /\ IF messages' # messages
               THEN autoPlayEffect(messages', settings, voiceEnabled)
               ELSE UNCHANGED <<voiceState, error, audioElement, plays>>
    /\ UNCHANGED <<onVoiceMessage, bootPending, uploads, voiceEnabled, isClient, settings,
                   mediaRecorderRef, streamRef, stopResult, captureVars>>

\* The volume slider of the settings dialog (its change event):
\* updateSettings({ volume }).  playAudio depends on settings.volume, so the
\* render that follows runs the auto-play effect again.
UpdateVolume(v) ==
    /\ isClient
    /\ v # settings.volume
    /\ settings' = [settings EXCEPT !.volume = v]
    /\ autoPlayEffect(messages, settings', voiceEnabled)
    /\ UNCHANGED <<messages, isLoading, conversationId, currentAgent, onVoiceMessage,
                   bootPending, uploads, chats, voiceEnabled, isClient, mediaRecorderRef,
                   streamRef, stopResult, captureVars>>

\* The auto-play switch of the settings dialog:
\* updateSettings({ autoPlayResponses: !settings.autoPlayResponses }).
ToggleAutoPlayResponses ==
    /\ isClient
    /\ settings' = [settings EXCEPT !.autoPlayResponses = ~@]
    /\ autoPlayEffect(messages, settings', voiceEnabled)
    /\ UNCHANGED <<messages, isLoading, conversationId, currentAgent, onVoiceMessage,
                   bootPending, uploads, chats, voiceEnabled, isClient, mediaRecorderRef,
                   streamRef, stopResult, captureVars>>

\* Chat's voice toggle: toggleVoice of Chat's instance.  When voice was
\* enabled: stopRecording (this instance never records, so it resolves
\* null), stopPlayback, stopListening.  When it becomes enabled the
\* auto-play effect runs.
ChatToggleVoiceClick ==
    /\ isClient
    /\ mediaRecorderRef = NoRef
    /\ voiceEnabled' = ~voiceEnabled
    /\ IF voiceEnabled
       THEN /\ stopResult' = "null"
            /\ stopPlayback
            /\ UNCHANGED <<error, plays>>
       ELSE /\ autoPlayEffect(messages, settings, TRUE)
            /\ UNCHANGED stopResult
    /\ UNCHANGED <<messages, isLoading, conversationId, currentAgent, onVoiceMessage,
                   bootPending, uploads, chats, isClient, settings, mediaRecorderRef,
                   streamRef, captureVars>>

\* audio.play() of playAudio invocation k resolves.
ChatPlayStarted(k) ==
    /\ k \in plays
    /\ audioElement.load = k
    /\ audioElement.status = "loading"
    /\ plays' = plays \ {k}
    /\ audioElement' = [audioElement EXCEPT !.status = "playing"]
    /\ UNCHANGED <<messages, isLoading, conversationId, currentAgent, onVoiceMessage,
                   bootPending, uploads, chats, hookVars, stopResult, captureVars>>

\* audio.play() of playAudio invocation k rejects (autoplay policy,
\* undecodable payload, a pause, or a newer payload loaded into the element):
\* the catch block.
ChatPlayRejected(k) ==
    /\ k \in plays
    /\ plays' = plays \ {k}
    /\ audioElement' = IF audioElement.load = k /\ audioElement.status = "loading"
                       THEN [audioElement EXCEPT !.status = "failed"]
                       ELSE audioElement
    /\ error' = "Audio playback failed"
    /\ voiceState' = "error"
    /\ UNCHANGED <<messages, isLoading, conversationId, currentAgent, onVoiceMessage,
                   bootPending, uploads, chats, voiceEnabled, isClient, settings,
                   mediaRecorderRef, streamRef, stopResult, captureVars>>

\* audio.onended of playAudio
ChatPlaybackEnded ==
    /\ audioElement.status = "playing"
    /\ audioElement' = [audioElement EXCEPT !.status = "ended"]
    /\ voiceState' = "idle"
    /\ UNCHANGED <<messages, isLoading, conversationId, currentAgent, onVoiceMessage,
                   bootPending, uploads, chats, plays, error, voiceEnabled, isClient,
                   settings, mediaRecorderRef, streamRef, stopResult, captureVars>>

\* audio.onerror of playAudio
ChatPlaybackError ==
    /\ audioElement.status = "playing"
    /\ audioElement' = [audioElement EXCEPT !.status = "failed"]
    /\ error' = "Failed to play audio"
    /\ voiceState' = "error"
    /\ UNCHANGED <<messages, isLoading, conversationId, currentAgent, onVoiceMessage,
                   bootPending, uploads, chats, plays, voiceEnabled, isClient, settings,
                   mediaRecorderRef, streamRef, stopResult, captureVars>>

\* The page while the settings dialog is left alone: typed and spoken
\* messages, their responses and the playback of the responses.
NextChat ==
    \/ MountEffect
    \/ \E res \in ChatResponses : BootSettled(res)
    \/ \E text \in InputTexts : HandleSend(text)
    \/ HandleVoiceRecording
    \/ \E i \in RecordingIds, res \in UploadResponses : UploadSettled(i, res)
    \/ \E c \in SendIds, res \in ChatResponses : ChatSettled(c, res)
    \/ ChatToggleVoiceClick
    \/ \E k \in PlayIds : ChatPlayStarted(k)
    \/ \E k \in PlayIds : ChatPlayRejected(k)
    \/ ChatPlaybackEnded
    \/ ChatPlaybackError

SpecChat == Init /\ [][NextChat]_vars

\* The page while the microphone is left alone: typed messages, their
\* responses, the playback of the responses and the settings dialog.
NextChatSettings ==
    \/ MountEffect
    \/ \E text \in InputTexts : HandleSend(text)
    \/ \E c \in SendIds, res \in ChatResponses : ChatSettled(c, res)
    \/ \E v \in Volumes : UpdateVolume(v)
    \/ ToggleAutoPlayResponses
    \/ ChatToggleVoiceClick
    \/ \E k \in PlayIds : ChatPlayStarted(k)
    \/ \E k \in PlayIds : ChatPlayRejected(k)
    \/ ChatPlaybackEnded
    \/ ChatPlaybackError

SpecChatSettings == Init /\ [][NextChatSettings]_vars

\* ------------------------------------------- useVoice playing blob payloads
\* The hook as any consumer may drive it: playAudio with a base64 string or
\* with a Blob, stopPlayback, and the events of its Audio element.

\* What this part leaves alone.
notPlayAudioVars == <<messages, isLoading, conversationId, currentAgent, onVoiceMessage,
                      bootPending, uploads, chats, voiceEnabled, isClient, settings,
                      mediaRecorderRef, streamRef, stopResult, browserVars,
                      gumPending, importPending, stopPending, savePending, mouse, monitorVars,
                      hybridVars, playbackVars, waveformVars, elevenLabsVars, managerVars>>

\* A consumer calls playAudio(audioData): for a Blob the src is a new object
\* URL.  The URL the element had before is not touched.
PlayAudioCall(isBlob) ==
    /\ isClient
    /\ playAudio(settings)
    /\ objectUrls' = IF isBlob
                     THEN [objectUrls EXCEPT ![audioElement.load + 1] = "live"]
                     ELSE objectUrls
    /\ UNCHANGED notPlayAudioVars

\* A consumer calls stopPlayback.
StopPlaybackCall ==
    /\ isClient
    /\ stopPlayback
    /\ UNCHANGED <<error, plays, objectUrls, notPlayAudioVars>>

\* audio.onended as the latest playAudio call set it: state 'idle', and for
\* a Blob payload URL.revokeObjectURL(audio.src).
AudioEnded ==
    /\ audioElement.status = "playing"
    /\ audioElement' = [audioElement EXCEPT !.status = "ended"]
    /\ voiceState' = "idle"
    /\ objectUrls' = IF objectUrls[audioElement.load] # "none"
                     THEN [objectUrls EXCEPT ![audioElement.load] = "revoked"]
                     ELSE objectUrls
    /\ UNCHANGED <<error, plays, notPlayAudioVars>>

NextPlayAudio ==
    \/ MountEffect
    \/ \E isBlob \in BOOLEAN : PlayAudioCall(isBlob)
    \/ StopPlaybackCall
    \/ \E k \in PlayIds : ChatPlayStarted(k)
    \/ \E k \in PlayIds : ChatPlayRejected(k)
    \/ AudioEnded
    \/ ChatPlaybackError

SpecPlayAudio == Init /\ [][NextPlayAudio]_vars

\* --------------------------------------------------------- VoicePlayback
\* The payloads are base64 strings, played through data: URLs.

FreshElements == {e \in ElementIds : audioElements[e] = NoElement}
NextElement == CHOOSE e \in FreshElements : \A f \in FreshElements : e <= f

\* What this part leaves alone.
notPlaybackVars == <<voiceVars, browserVars, hybridVars, chatVars, waveformVars, restVars>>

\* The host renders VoicePlayback with other props: the cleanup of the audio
\* effect runs if the previous run had a payload (audio.remove(),
\* audioRef.current = null), then the effect: with a payload it creates an
\* Audio element, keeps it in audioRef, sets its src, listeners and volume and,
\* with autoPlay, calls play() (started: play() succeeds, its `play` event
\* sets internalPlaying).
SetPlaybackProps(payload, auto, started) ==
    /\ <<payload, auto>> # <<audioData, autoPlay>>
    /\ audioData' = payload
    /\ autoPlay' = auto
    /\ IF payload = NoRef
       THEN /\ audioRef' = NoRef
            /\ UNCHANGED <<audioElements, internalPlaying>>
       ELSE /\ FreshElements # {}
            /\ audioRef' = NextElement
            /\ audioElements' = [audioElements EXCEPT ![NextElement] =
                                    [src |-> payload,
                                     status |-> IF auto /\ started THEN "playing"
                                                                  ELSE "paused",
                                     volume |-> volume]]
            /\ internalPlaying' = IF auto /\ started THEN TRUE ELSE internalPlaying
    /\ UNCHANGED <<volume, notPlaybackVars>>

\* handlePlay: audioRef.current.play() (started: it succeeds).
HandlePlay(started) ==
    /\ audioRef # NoRef
    /\ IF started
       THEN /\ audioElements' = [audioElements EXCEPT ![audioRef].status = "playing"]
            /\ internalPlaying' = TRUE
       ELSE UNCHANGED <<audioElements, internalPlaying>>
    /\ UNCHANGED <<audioData, autoPlay, volume, audioRef, notPlaybackVars>>

\* handlePause and handleStop: audioRef.current.pause(); the `pause` event
\* of a playing element clears internalPlaying.
HandlePause ==
    /\ audioRef # NoRef
    /\ IF audioElements[audioRef].status = "playing"
       THEN /\ audioElements' = [audioElements EXCEPT ![audioRef].status = "paused"]
            /\ internalPlaying' = FALSE
       ELSE UNCHANGED <<audioElements, internalPlaying>>
    /\ UNCHANGED <<audioData, autoPlay, volume, audioRef, notPlaybackVars>>

\* The `ended` listener of an element, whether audioRef still holds it or not.
ElementEnded(e) ==
    /\ audioElements[e].status = "playing"
    /\ audioElements' = [audioElements EXCEPT ![e].status = "ended"]
    /\ internalPlaying' = FALSE
    /\ UNCHANGED <<audioData, autoPlay, volume, audioRef, notPlaybackVars>>

\* handleVolumeChange
HandleVolumeChange(v) ==
    /\ volume' = v
    /\ audioElements' = IF audioRef # NoRef
                        THEN [audioElements EXCEPT ![audioRef].volume = v]
                        ELSE audioElements
    /\ UNCHANGED <<audioData, autoPlay, internalPlaying, audioRef, notPlaybackVars>>

NextPlayback ==
    \/ \E payload \in Payloads \cup {NoRef}, auto \in BOOLEAN, started \in BOOLEAN :
          SetPlaybackProps(payload, auto, started)
    \/ \E started \in BOOLEAN : HandlePlay(started)
    \/ HandlePause
    \/ \E e \in ElementIds : ElementEnded(e)
    \/ \E v \in Volumes : HandleVolumeChange(v)

SpecPlayback == Init /\ [][NextPlayback]_vars

\* --------------------------------------------------------- VoiceWaveform

Modes == {"bars", "circle", "line", "orb"}
Sizes == {"small", "medium", "large"}
BinCounts == 1..MaxBins

\* sizeConfig[size].barCount
barCount(sz) == CASE sz = "small" -> 12 [] sz = "medium" -> 20 [] sz = "large" -> 32

\* `const points = 64` of the line mode.
points == 64

\* The number of bars or points the loop of a mode draws (the orb has none).
TargetCount(md, sz) ==
    CASE md \in {"circle", "bars"} -> barCount(sz)
      [] md = "line" -> points
      [] md = "orb" -> 0

\* A variant of dataIndex that scales the end of the bar, (i + 1), instead of
\* its start.
dataIndexOfBarEnd(i, length, count) ==
    IF length # NoRef THEN ((i + 1) * length) \div count ELSE i

\* dataIndex of iteration i: Math.floor(i * frequencyData.length / count) when
\* there is frequency data, otherwise i.  The operands are small integers, so
\* the floating-point quotient floors to the integer quotient.
dataIndex(i, length, count) ==
    IF length # NoRef THEN (i * length) \div count ELSE i

\* drawWaveform with the given props: the indices its loop computes.
drawWaveform(md, sz, length) ==
    [i \in 0..(TargetCount(md, sz) - 1) |-> dataIndex(i, length, TargetCount(md, sz))]

FrameIds == 1..MaxFrames

\* The frame requests left after the cleanup of the animation effect, which
\* cancels the request animationFrameRef holds, and a variant of it that
\* cancels nothing.
framesKept(pending, ref) == pending
framesAfterCleanup(pending, ref) == IF ref # NoRef THEN pending \ {ref} ELSE pending

\* The id requestAnimationFrame returns: one that no scheduled request has
\* and that the ref does not still hold.
FreshFrames(pending, ref) == {f \in FrameIds : f \notin pending /\ f # ref}
NextFrame(pending, ref) ==
    CHOOSE f \in FreshFrames(pending, ref) : \A g \in FreshFrames(pending, ref) : f <= g

\* The animation effect run again after a render that changed isActive or
\* drawWaveform: the cleanup of its previous run, then its body.  Active: it
\* draws and requests a frame.  Inactive: it cancels the request the ref
\* holds, clears the ref and draws the static state.  Assigns lastDraw,
\* waveformFrameRef, waveformFrames.
animationEffect(active) ==
    IF active
    THEN /\ FreshFrames(framesAfterCleanup(waveformFrames, waveformFrameRef),
                        waveformFrameRef) # {}
         /\ lastDraw' = "effect"
         /\ waveformFrameRef' = NextFrame(framesAfterCleanup(waveformFrames, waveformFrameRef),
                                          waveformFrameRef)
         /\ waveformFrames' = framesAfterCleanup(waveformFrames, waveformFrameRef)
                                  \cup {waveformFrameRef'}
    ELSE /\ lastDraw' = "static"
         /\ waveformFrameRef' = NoRef
         /\ waveformFrames' = framesAfterCleanup(waveformFrames, waveformFrameRef)
                                  \ {waveformFrameRef}

\* What the actions of VoiceWaveform leave alone.
notWaveformVars == <<voiceVars, browserVars, hybridVars, chatVars, playbackVars, restVars>>

\* The host renders VoiceWaveform with another mode or size; drawWaveform
\* changes with them and the effect runs again.
SetWaveformProps(md, sz) ==
    /\ mounted
    /\ <<md, sz>> # <<mode, size>>
    /\ mode' = md
    /\ size' = sz
    /\ dataIndices' = drawWaveform(md, sz, frequencyData)
    /\ animationEffect(isActive)
    /\ UNCHANGED <<frequencyData, isActive, mounted, notWaveformVars>>

\* The host renders VoiceWaveform with new frequency data (a new array of
\* some length, or null); drawWaveform changes and the effect runs again.
SetFrequencyData(length) ==
    /\ mounted
    /\ frequencyData' = length
    /\ dataIndices' = drawWaveform(mode, size, length)
    /\ animationEffect(isActive)
    /\ UNCHANGED <<mode, size, isActive, mounted, notWaveformVars>>

\* The host renders VoiceWaveform with the other value of isActive.
SetActive ==
    /\ mounted
    /\ isActive' = ~isActive
    /\ dataIndices' = drawWaveform(mode, size, frequencyData)
    /\ animationEffect(~isActive)
    /\ UNCHANGED <<mode, size, frequencyData, mounted, notWaveformVars>>

\* A scheduled animation frame callback runs animate: drawWaveform (nothing
\* to draw on once the canvas is gone), then the next request, kept in the
\* ref.
FrameTick(f) ==
    /\ f \in waveformFrames
    /\ FreshFrames(waveformFrames, f) # {}
    /\ lastDraw' = IF mounted THEN "frame" ELSE lastDraw
    /\ waveformFrameRef' = NextFrame(waveformFrames, f)
    /\ waveformFrames' = (waveformFrames \ {f}) \cup {waveformFrameRef'}
    /\ UNCHANGED <<mode, size, frequencyData, dataIndices, isActive, mounted,
                   notWaveformVars>>

\* The host unmounts VoiceWaveform: the cleanup of the animation effect.
Unmount ==
    /\ mounted
    /\ mounted' = FALSE
    /\ waveformFrames' = framesAfterCleanup(waveformFrames, waveformFrameRef)
    /\ UNCHANGED <<mode, size, frequencyData, dataIndices, isActive, lastDraw,
                   waveformFrameRef, notWaveformVars>>

NextWaveform ==
    \/ \E md \in Modes, sz \in Sizes : SetWaveformProps(md, sz)
    \/ \E length \in BinCounts \cup {NoRef} : SetFrequencyData(length)

SpecWaveform == Init /\ [][NextWaveform]_vars

\* VoiceWaveform being switched on and off, redrawn and unmounted.
NextWaveformAnimation ==
    \/ \E md \in Modes, sz \in Sizes : SetWaveformProps(md, sz)
    \/ SetActive
    \/ \E f \in FrameIds : FrameTick(f)
    \/ Unmount

SpecWaveformAnimation == Init /\ [][NextWaveformAnimation]_vars

\* ------------------------------------------------------ useElevenLabsVoice

\* The hook rendered with other options (agentId given or not,
\* autoLoadSignedUrl).
ElevenLabsOptions == [agentId : BOOLEAN, autoLoadSignedUrl : BOOLEAN]

\* What getElevenLabsConfig resolves to: null (fetch rejected or status not
\* 2xx), a body with an `error` field, or a configuration; or it rejects
\* (the body cannot be decoded).
ConfigBodies ==
    [loaded : {TRUE}, has_api_key : BOOLEAN, default_agent_id : BOOLEAN,
     public_agent : BOOLEAN]
ConfigOutcomes ==
    {[kind |-> k, body |-> NoConfig] : k \in {"null", "throws", "error"}}
        \cup {[kind |-> "data", body |-> b] : b \in ConfigBodies}

\* What getElevenLabsSignedUrl resolves to: null, a body with an `error`
\* field and no signed_url, a body with no signed_url and no error
\* ("empty"), or a body with a signed_url; or it rejects.
SignedUrlOutcomes == {"null", "throws", "error", "empty", "url"}
SignedUrlFailures == SignedUrlOutcomes \ {"url"}

\* options.agentId || config?.default_agent_id || null
agentId(o, c) ==
    IF o.agentId THEN "options" ELSE IF c.default_agent_id THEN "default" ELSE "null"

\* !!(config?.has_api_key && agentId)
isConfigured(o, c) == c.has_api_key /\ agentId(o, c) # "null"

\* config?.public_agent || false
isPublicAgent(c) == c.public_agent

\* The dependencies of the auto-load effect; loadSignedUrl stands for its
\* own dependencies [agentId, isPublicAgent].
AutoLoadDeps(o, e) ==
    <<o.autoLoadSignedUrl, isConfigured(o, e.config), isPublicAgent(e.config), e.signedUrl,
      e.isLoading, <<agentId(o, e.config), isPublicAgent(e.config)>>>>

\* The condition of the auto-load effect.
AutoLoads(o, e) ==
    /\ o.autoLoadSignedUrl
    /\ isConfigured(o, e.config)
    /\ ~isPublicAgent(e.config)
    /\ e.signedUrl = "null"
    /\ ~e.isLoading

\* The render that follows a handler which left the hook with options o,
\* state e and sp signed-URL requests in flight: when a dependency of the
\* auto-load effect changed and its condition holds it calls
\* loadSignedUrl(), which sets isLoading, clears the error and requests the
\* URL.  Assigns options, elevenLabs, signedUrlPending.
autoLoadEffect(o, e, sp) ==
    /\ options' = o
    /\ IF AutoLoadDeps(o, e) # AutoLoadDeps(options, elevenLabs) /\ AutoLoads(o, e)
       THEN /\ sp < MaxCalls
            /\ elevenLabs' = [e EXCEPT !.isLoading = TRUE, !.error = NoError]
            /\ signedUrlPending' = sp + 1
       ELSE /\ elevenLabs' = e
            /\ signedUrlPending' = sp

\* What the actions of useElevenLabsVoice leave alone.
notElevenLabsVars ==
    <<voiceVars, browserVars, hybridVars, chatVars, playbackVars, waveformVars, urlVars,
      managerVars>>

\* The first render: the mount effect calls loadConfig(); config is null, so
\* the auto-load effect does nothing.
ElevenLabsMount ==
    /\ ~elevenLabs.mounted
    /\ elevenLabs' = [elevenLabs EXCEPT !.mounted = TRUE, !.isLoading = TRUE,
                                        !.error = NoError]
    /\ configPending' = configPending + 1
    /\ UNCHANGED <<options, signedUrlPending, notElevenLabsVars>>

\* The host renders the hook with other options.
SetOptions(o) ==
    /\ elevenLabs.mounted
    /\ o # options
    /\ autoLoadEffect(o, elevenLabs, signedUrlPending)
    /\ UNCHANGED <<configPending, notElevenLabsVars>>

\* The consumer calls refreshConfig(): loadConfig().
RefreshConfigCall ==
    /\ elevenLabs.mounted
    /\ configPending < MaxCalls
    /\ configPending' = configPending + 1
    /\ autoLoadEffect(options, [elevenLabs EXCEPT !.isLoading = TRUE, !.error = NoError],
                      signedUrlPending)
    /\ UNCHANGED notElevenLabsVars

\* getElevenLabsConfig of a loadConfig settles: the configuration is kept or
\* the error is set, and isLoading is cleared.
ConfigSettled(out) ==
    /\ configPending > 0
    /\ configPending' = configPending - 1
    /\ autoLoadEffect(options,
                      IF out.kind = "data"
                      THEN [elevenLabs EXCEPT !.config = out.body, !.isLoading = FALSE]
                      ELSE [elevenLabs EXCEPT
                               !.error = IF out.kind = "error" THEN "configData.error"
                                         ELSE "Failed to load ElevenLabs configuration",
                               !.isLoading = FALSE],
                      signedUrlPending)
    /\ UNCHANGED notElevenLabsVars

\* The consumer calls loadSignedUrl(targetAgentId), with or without an id.
LoadSignedUrlCall(target) ==
    /\ elevenLabs.mounted
    /\ IF ~target /\ agentId(options, elevenLabs.config) = "null"
       THEN autoLoadEffect(options, [elevenLabs EXCEPT !.error = "No agent ID provided"],
                           signedUrlPending)
       ELSE IF isPublicAgent(elevenLabs.config)
            THEN UNCHANGED elevenLabsVars
            ELSE /\ signedUrlPending < MaxCalls
                 /\ autoLoadEffect(options,
                                   [elevenLabs EXCEPT !.isLoading = TRUE, !.error = NoError],
                                   signedUrlPending + 1)
    /\ UNCHANGED <<configPending, notElevenLabsVars>>

\* getElevenLabsSignedUrl of a loadSignedUrl settles: the URL is kept or the
\* error is set, and isLoading is cleared.
SignedUrlSettled(out) ==
    /\ signedUrlPending > 0
    /\ autoLoadEffect(options,
                      IF out = "url"
                      THEN [elevenLabs EXCEPT !.signedUrl = "url", !.isLoading = FALSE]
                      ELSE [elevenLabs EXCEPT
                               !.error = IF out = "error" THEN "response.error"
                                         ELSE "Failed to get signed URL",
                               !.isLoading = FALSE],
                      signedUrlPending - 1)
    /\ UNCHANGED <<configPending, notElevenLabsVars>>

NextElevenLabs ==
    \/ ElevenLabsMount
    \/ \E o \in ElevenLabsOptions : SetOptions(o)
    \/ RefreshConfigCall
    \/ \E out \in ConfigOutcomes : ConfigSettled(out)
    \/ \E target \in BOOLEAN : LoadSignedUrlCall(target)
    \/ \E out \in SignedUrlOutcomes : SignedUrlSettled(out)

SpecElevenLabs == Init /\ [][NextElevenLabs]_vars

\* ------------------------------------------------------ RecordingsManager

\* How a request to the backend ends: fetch rejects, the status is not 2xx,
\* the status is 2xx and the body cannot be decoded, or a body arrives.
FetchOutcomes == {"rejected", "status", "undecodable", "data"}

\* deleteRecording: null when fetch rejects or the status is not 2xx (the
\* catch block); otherwise `return res.json()`, whose rejection reaches the
\* caller.
deleteRecording(out) ==
    IF out \in {"rejected", "status"} THEN "null"
    ELSE IF out = "undecodable" THEN "throws"
    ELSE "data"

\* The backend deleted the recording: it answered with a 2xx status.
DeleteSucceeded(out) == out \in {"undecodable", "data"}

\* What the actions of RecordingsManager leave alone.
notManagerVars ==
    <<voiceVars, browserVars, hybridVars, chatVars, playbackVars, waveformVars, urlVars,
      elevenLabsVars>>

\* The host opens or closes the manager; the effect on [isOpen, ...] calls
\* loadRecordings, which returns at once when closed.
SetOpen ==
    /\ isOpen' = ~isOpen
    /\ IF ~isOpen
       THEN /\ listPending < MaxCalls
            /\ listPending' = listPending + 1
            /\ recordingsError' = NoError
       ELSE UNCHANGED <<listPending, recordingsError>>
    /\ UNCHANGED <<recordings, selectedRecording, audioLoads, deletes, stored,
                   notManagerVars>>

\* listRecordings settles: an array (the stored recordings, or [] from its
\* catch block) replaces the list; a rejection sets the error.
ListSettled(out) ==
    /\ listPending > 0
    /\ listPending' = listPending - 1
    /\ IF out = "undecodable"
       THEN /\ recordingsError' = "Failed to load recordings"
            /\ UNCHANGED recordings
       ELSE /\ recordings' = IF out = "data" THEN stored ELSE {}
            /\ UNCHANGED recordingsError
    /\ UNCHANGED <<isOpen, selectedRecording, audioLoads, deletes, stored, notManagerVars>>

\* A click on a recording of the list: loadRecordingAudio.
SelectClick(r) ==
    /\ isOpen
    /\ r \in recordings
    /\ r \notin audioLoads
    /\ audioLoads' = audioLoads \cup {r}
    /\ UNCHANGED <<isOpen, recordings, selectedRecording, recordingsError, listPending,
                   deletes, stored, notManagerVars>>

\* getRecording settles: with audio the recording becomes the selected one;
\* null changes nothing; a rejection sets the error.
AudioSettled(r, out) ==
    /\ r \in audioLoads
    /\ audioLoads' = audioLoads \ {r}
    /\ out = "data" => r \in stored
    /\ selectedRecording' = IF out = "data" THEN r ELSE selectedRecording
    /\ recordingsError' = IF out = "undecodable" THEN "Failed to load recording audio"
                          ELSE recordingsError
    /\ UNCHANGED <<isOpen, recordings, listPending, deletes, stored, notManagerVars>>

\* A click on the delete button of a recording of the list or of the selected
\* recording, confirmed: handleDeleteRecording up to `await deleteRecording`.
DeleteClick(r) ==
    /\ isOpen
    /\ r \in recordings \/ r = selectedRecording
    /\ Cardinality(deletes) < MaxCalls
    /\ [recordingId |-> r, selectedRecording |-> selectedRecording] \notin deletes
    /\ deletes' = deletes \cup {[recordingId |-> r, selectedRecording |-> selectedRecording]}
    /\ UNCHANGED <<isOpen, recordings, selectedRecording, recordingsError, listPending,
                   audioLoads, stored, notManagerVars>>

\* deleteRecording settles.  Its value is not looked at: unless it rejects,
\* the recording leaves the list, and the selection is cleared when the
\* render that made the handler had this recording selected.
DeleteSettled(d, out) ==
    /\ d \in deletes
    /\ deletes' = deletes \ {d}
    /\ DeleteSucceeded(out) => d.recordingId \in stored
    /\ stored' = IF DeleteSucceeded(out) THEN stored \ {d.recordingId} ELSE stored
    /\ IF deleteRecording(out) = "throws"
       THEN /\ recordingsError' = "Failed to delete recording"
            /\ UNCHANGED <<recordings, selectedRecording>>
       ELSE /\ recordings' = recordings \ {d.recordingId}
            /\ selectedRecording' = IF d.selectedRecording = d.recordingId
                                    THEN NoRef ELSE selectedRecording
            /\ UNCHANGED recordingsError
    /\ UNCHANGED <<isOpen, listPending, audioLoads, notManagerVars>>

NextManager ==
    \/ SetOpen
    \/ \E out \in FetchOutcomes : ListSettled(out)
    \/ \E r \in StoredIds : SelectClick(r)
    \/ \E r \in StoredIds, out \in FetchOutcomes : AudioSettled(r, out)
    \/ \E r \in StoredIds : DeleteClick(r)
    \/ \E r \in StoredIds, s \in StoredIds \cup {NoRef}, out \in FetchOutcomes :
          DeleteSettled([recordingId |-> r, selectedRecording |-> s], out)

SpecManager == Init /\ [][NextManager]_vars

\* ------------------------------------- HybridVoiceAgent beside the settings
\* Home renders HybridVoiceAgent next to Chat, whose settings dialog holds the
\* auto-play switch.
NextHybridPage ==
    \/ NextHybrid
    \/ MountEffect
    \/ ToggleAutoPlayResponses

SpecHybridPage == Init /\ [][NextHybridPage]_vars

\* The elements that are sounding.
PlayingElements == {e \in ElementIds : audioElements[e].status = "playing"}

\* ------------------------------------------- useVoice: derived predicates

LiveStreams == {s \in StreamIds : streams[s] = "live"}
Recording == {s \in StreamIds : recorders[s] = "recording"}
\* A startRecording invocation is between its call and its return.
StartInFlight == gumPending > 0 \/ importPending # {}
\* Every callback and promise of the hook has run.
Settled == ~StartInFlight /\ stopPending = 0 /\ savePending = 0
\* The session is Recording, Processing or Playing, or is about to record.
SessionActive ==
    \/ voiceState \in {"recording", "processing", "playing"}
    \/ StartInFlight
    \/ Recording # {}
\* The steps in which VoiceMicrophone calls stopRecording.
CallsStopRecording ==
    \/ ToggleVoiceClick /\ voiceEnabled
    \/ (HandleMouseUp \/ HandleMouseLeave) /\ settings.mode = "push-to-talk" /\ isRecording
    \/ HandleMicrophoneClick /\ voiceEnabled /\ isRecording

\* ---------------------------------------------------- claims on useVoice

\* C1: at most one audio session at a time: a startRecording call made while
\* the session is Recording, Processing or Playing, or while an earlier
\* startRecording is still acquiring the microphone, is rejected, i.e. no
\* step taken from such a state adds a startRecording invocation.
C1_SecondStartRejected ==
    [][SessionActive => gumPending' <= gumPending]_vars

\* C2: in push-to-talk mode, once the button is up again (released and
\* clicked, or left) and every pending callback has run, no recorder is
\* recording and no microphone stream is live.  Runs in which a start
\* attempt failed are left to C6.
C2_NoStuckMicrophone ==
    (mouse = "up" /\ Settled /\ voiceState # "error")
        => (Recording = {} /\ LiveStreams = {})

\* C4: stopRecording called when no capture is active (nothing recording,
\* nothing pending) resolves to null and changes neither the session state,
\* the error, the recorder reference nor the stream reference.
C4_StopWithoutCaptureIsNoop ==
    [][(CallsStopRecording /\ Recording = {} /\ Settled)
        => (stopResult' = "null"
            /\ UNCHANGED <<voiceState, error, mediaRecorderRef, streamRef>>)]_vars

\* C5: a stopRecording call made while the session is Recording, however
\* soon after startRecording, does not resolve to null: neither at once nor
\* from the recorder's stop callback.
C5_EarlyStopYieldsBuffer ==
    [][/\ (CallsStopRecording /\ isRecording) => stopResult' # "null"
       /\ StopCallback => stopResult' # "null"]_vars

\* C6: hardware release runs on every error path: when the controller is in
\* Error with nothing recording and nothing pending, no microphone track is
\* live.
C6_ReleaseOnErrorPath ==
    (voiceState = "error" /\ Recording = {} /\ Settled) => LiveStreams = {}

\* C9: when the microphone request is rejected the state was never Recording:
\* the rejection finds the controller not in Recording and leaves it in Error
\* with a message about microphone access.
C9_DeniedNeverRecording ==
    [][StartStreamDenied =>
        /\ voiceState # "recording"
        /\ voiceState' = "error"
        /\ error' = "Microphone access denied or not available"]_vars

\* C18: the saveRecordings setting decides whether a recording is uploaded
\* for storage: the stop callback of a recording that produced a blob starts
\* one /recordings/save request when the setting is true and none when it is
\* false.
C18_SaveRecordingsObeyed ==
    [][(StopCallback /\ getBlob)
          => savePending' = savePending + (IF settings.saveRecordings THEN 1 ELSE 0)]_vars

\* -------------------------------------------- claims on HybridVoiceAgent

\* The capture the recorder reference points at is running.
HybridCaptureActive ==
    hybridRecorderRef # NoRef /\ recorders[hybridRecorderRef] = "recording"
\* A processVoiceMessage run is awaiting /speech-to-text, /voice/agent-chat
\* or audio.play().
TurnInFlight(r) == turns[r].pc \in {"stt", "agent", "play"}

\* C3: a startRecording that completes while a capture is active leaves the
\* recorder reference and the chunk buffer of that capture as they are.
C3_SecondStartLeavesCapture ==
    [][((HybridRecorderStarted \/ \E atStart \in BOOLEAN : HybridRecorderFailed(atStart))
        /\ HybridCaptureActive)
        => UNCHANGED <<hybridRecorderRef, audioChunksRef>>]_vars

\* C7: once the capture is stopped its tracks are stopped: while the
\* transcription call, the agent call or the start of playback of a turn is
\* pending, the stream that turn recorded is not live.
C7_TracksStoppedWhileProcessing ==
    \A r \in StreamIds : TurnInFlight(r) => streams[r] # "live"

\* C8: at most one microphone stream obtained through getUserMedia, by
\* startRecording or by the permission request, has running tracks.
C8_OneOpenStream ==
    permissionStreams + Cardinality(LiveStreams) <= 1

\* C10: the order of a voice turn.  Recording is entered from Idle and
\* Processing from Recording; /speech-to-text gets one `audio` field; the
\* agent call is only issued with the transcript that came back, which is
\* not empty; Playing is entered from Processing by a response that carries
\* audio_base64; `ended` leaves the controller Idle.
C10_VoiceTurnOrder ==
    /\ [](\A r \in StreamIds :
            /\ TurnInFlight(r) => turns[r].audioFields = 1
            /\ turns[r].message # "none" =>
                 /\ turns[r].transcript \notin {"none", ""}
                 /\ turns[r].message = turns[r].transcript)
    /\ [][/\ (~state.isRecording /\ state.isRecording') => HybridIdle
          /\ (~state.isProcessing /\ state.isProcessing') =>
                (state.isRecording /\ ~state.isRecording')
          /\ (~state.isPlaying /\ state.isPlaying') =>
                /\ state.isProcessing /\ ~state.isProcessing'
                /\ \E r \in StreamIds : turns[r].pc = "agent" /\ turns'[r].audio_base64
          /\ (\E r \in StreamIds, outcome \in AgentOutcomes :
                 AgentChatSettled(r, outcome) /\ outcome.received /\ outcome.success
                 /\ outcome.audio_base64) => state.isPlaying'
          /\ PlaybackEnded => HybridIdle']_vars

\* C12: an empty transcript is not an error: when /speech-to-text answers
\* with an empty transcript the controller goes back to Idle and its error
\* stays as it was.
C12_EmptyTranscriptSilent ==
    [][\A r \in StreamIds :
          TranscriptionSettled(r, "") => (state'.error = state.error /\ HybridIdle')]_vars

\* C14: a response of /voice/agent-chat whose status is not 2xx is a failed
\* call whatever its body says: the run takes the failure path (error set,
\* Processing left) and changes neither the current agent, the conversation
\* id nor the Audio element, and does not enter Playing.
C14_Non2xxIsFailure ==
    [][\A r \in StreamIds, outcome \in AgentOutcomes :
          (AgentChatSettled(r, outcome) /\ outcome.received /\ ~outcome.ok)
              => /\ state'.error = "Failed to process voice message"
                 /\ state'.currentAgent = state.currentAgent
                 /\ state'.conversationId = state.conversationId
                 /\ state'.isPlaying = state.isPlaying
                 /\ audio' = audio]_vars

\* ----------------------------------------------------- claims on the page

C13_FailureSetsError ==
    [][\A i \in RecordingIds, res \in UploadResponses :
          (UploadSettled(i, res) /\ uploadAudio(res) # "data")
              => (voiceState' = "error" /\ error' # NoError)]_vars

\* C15: one playback at a time: of the Audio elements a VoicePlayback has
\* created at most one is playing, also after it was given a new payload
\* while the previous one was playing.
C15_OnePlayback == Cardinality(PlayingElements) <= 1

\* C16: a volume change made while a response is playing reaches the active
\* playback at once and does not restart it: the Audio element of the hook
\* keeps its payload and its playing status and has the new volume.
C16_VolumeChangeNoRestart ==
    [][\A v \in Volumes :
          (UpdateVolume(v) /\ audioElement.status = "playing")
              => audioElement' = [audioElement EXCEPT !.volume = v]]_vars

\* C17: Playing is entered only with auto-play on: when HybridVoiceAgent
\* enters Playing, the response carries audio_base64 and the
\* autoPlayResponses setting is true.
C17_PlayingOnlyWithAutoPlay ==
    [][(~state.isPlaying /\ state.isPlaying')
          => /\ \E r \in StreamIds : turns'[r].audio_base64
             /\ settings.autoPlayResponses]_vars

\* C19: the bin index stays in range: with frequency data of length B >= 1,
\* every dataIndex the drawing loop computes, for 12, 20 or 32 bars or 64
\* points, is at least 0 and less than B.
C19_DataIndexInRange ==
    frequencyData # NoRef =>
        \A i \in DOMAIN dataIndices : dataIndices[i] >= 0 /\ dataIndices[i] < frequencyData

\* C19 witness: 32 bars drawn from fewer than 32 bins, the last bar reading
\* the last bin.
C19_Witness ==
    /\ mode = "bars"
    /\ size = "large"
    /\ frequencyData # NoRef
    /\ frequencyData < barCount("large")
    /\ frequencyData > 1
    /\ DOMAIN dataIndices = 0..(barCount("large") - 1)
    /\ dataIndices[barCount("large") - 1] = frequencyData - 1

\* C20: a response that arrives after the session has moved on is discarded:
\* when the /chat response of a turn settles after the user has started a
\* newer turn, it appends no message, changes neither the current agent nor
\* the conversation id, and leaves the voice state and the audio element as
\* they are (no playback starts).
C20_StaleResponseDiscarded ==
    [][\A c \in SendIds, res \in ChatResponses :
          (/\ ChatSettled(c, res)
           /\ \E d \in SendIds : d > c /\ chats[d] # NoCall)
          => UNCHANGED <<messages, currentAgent, conversationId, voiceState, audioElement>>]_vars

\* C21: a pending long operation shows in the state: while the
\* /recordings/save call of a stopped recording is in flight the useVoice
\* controller is in Processing.
C21_PendingShowsProcessing ==
    savePending > 0 => voiceState = "processing"

\* C22: every audio session ends: provided every pending call and playback
\* settles, HybridVoiceAgent does not stay in Processing for ever, nor in
\* Playing.
C22_SessionEnds ==
    /\ state.isProcessing ~> ~state.isProcessing
    /\ state.isPlaying ~> ~state.isPlaying

\* C27: conversation continuity in HybridVoiceAgent: once an agent response
\* has given the component a conversation id, the request a later turn sends
\* to /voice/agent-chat carries that id.
C27_ConversationContinues ==
    [][\A r \in StreamIds, outcome \in SttOutcomes :
          (/\ TranscriptionSettled(r, outcome)
           /\ ~TranscriptionUnusable(outcome)
           /\ state.conversationId # "null")
              => turns'[r].conversation_id = state.conversationId]_vars

\* C23: the object URL of a discarded payload is released: an object URL
\* that playAudio created and that is still unrevoked is the src of the
\* hook's Audio element.
C23_DiscardedUrlsRevoked ==
    \A k \in PlayIds : objectUrls[k] = "live" => audioElement.load = k

\* C24: while Recording the hook exposes a live amplitude: when
\* startRecording has started the recorder, the level monitor has sampled
\* the analyser into audioLevel and has its next animation frame scheduled.
C24_LevelMonitorRuns ==
    [][\A s \in StreamIds :
          StartRecorderStarted(s) => (audioLevel' = "sampled" /\ s \in frames')]_vars

\* C25: the renderer animates only while active: while VoiceWaveform is
\* inactive or unmounted no animation frame callback is scheduled, also
\* after drawWaveform changed while it was active, and while it is mounted
\* and inactive the last thing drawn is the static frame.
C25_LoopOnlyWhileActive ==
    /\ (~mounted \/ ~isActive) => waveformFrames = {}
    /\ (mounted /\ ~isActive) => lastDraw = "static"

\* C25 witness: the component was unmounted while active, after its mode or
\* size had changed: the ref still names the frame request of the loop, which
\* was cancelled.
C25_Witness ==
    /\ ~mounted
    /\ isActive
    /\ <<mode, size>> # <<"orb", "medium">>
    /\ waveformFrameRef # NoRef
    /\ waveformFrames = {}

\* C25 as stated: the final static frame is drawn when isActive becomes
\* false and also when the component unmounts, and no animation frame
\* callback remains scheduled afterwards.
C25_StaticFrameAlsoOnUnmount ==
    (~mounted \/ ~isActive) => (waveformFrames = {} /\ lastDraw = "static")

\* C26: failures do not throw uncaught.  When the /chat request of
\* handleSendMessage fails (fetch rejects, the status is not 2xx, or the body
\* cannot be decoded), callChatAPI gives a failure value and the controller
\* step that awaits it handles it: the apology message is appended and
\* isLoading is cleared.
C26_FailuresAreCaught ==
    [][\A c \in SendIds, res \in ChatResponses :
          (ChatSettled(c, res) /\ (~res.received \/ ~res.ok \/ ~res.decodable))
              => /\ callChatAPI(res) = "null"
                 /\ ~isLoading'
                 /\ Len(messages') = Len(messages) + 1]_vars

\* C28: the stop callback of useVoice.stopRecording acts only on the capture
\* it stopped, also when a new startRecording overlaps the pending stop: the
\* recorder it takes the blob from is a stopped one, the stream whose tracks
\* it stops is not that of a capture that was not stopped, and it does not
\* replace the Recording state a newer startRecording has set.
C28_StopCallbackOwnCapture ==
    [][StopCallback =>
          /\ recorders[mediaRecorderRef] = "stopped"
          /\ streamRef # NoRef => recorders[streamRef] = "stopped"
          /\ voiceState = "recording" => voiceState' = "recording"]_vars

\* C29: signed-URL auto-loading terminates.  With autoLoadSignedUrl set and
\* a configured private agent, a getElevenLabsSignedUrl request that fails
\* is not issued again: when the only request in flight fails, the hook is
\* left with no request in flight, error set and isLoading false.
C29_FailedAutoLoadSettles ==
    [][\A out \in SignedUrlFailures :
          (/\ SignedUrlSettled(out)
           /\ signedUrlPending = 1
           /\ options.autoLoadSignedUrl
           /\ isConfigured(options, elevenLabs.config)
           /\ ~isPublicAgent(elevenLabs.config))
              => /\ signedUrlPending' = 0
                 /\ elevenLabs'.error # NoError
                 /\ ~elevenLabs'.isLoading]_vars

\* C30: RecordingsManager removes a recording from the list, and clears it
\* as the selected recording, only if the backend DELETE for it succeeded;
\* when the delete call fails (fetch rejects or the status is not 2xx) the
\* list and the selection are unchanged and an error is shown.
C30_RemovedOnlyWhenDeleted ==
    [][\A r \in StoredIds, s \in StoredIds \cup {NoRef}, out \in FetchOutcomes :
          (DeleteSettled([recordingId |-> r, selectedRecording |-> s], out)
             /\ ~DeleteSucceeded(out))
              => /\ recordings' = recordings
                 /\ selectedRecording' = selectedRecording
                 /\ recordingsError' # NoError]_vars

====
